---- MODULE Spec2Model ----
(***************************************************************************)
(* Storage layer of synapse (synapse/lib/layer.py): the edit engine, the   *)
(* node-edit log and the replay of the log, as a state machine.            *)
(*                                                                         *)
(* Conventions of the model                                                *)
(*  - a Python value is a tuple of small non-negative integers: a scalar   *)
(*    is a 1-tuple, an array / interval is the tuple of its elements; the  *)
(*    stortype stored next to it tells them apart.  Python None is <<>>.   *)
(*  - bytes are tuples of integers 0..255.                                 *)
(*  - a name that is None in Python (form or prop of an abbreviation) is   *)
(*    the string "None".                                                   *)
(***************************************************************************)
EXTENDS Integers, Sequences, FiniteSets, TLC

\* ------------------------------------------------------------------ bounds
\* number of storNodeEdits / storNodeEditsNoLift calls a behaviour issues
MaxCalls == 3
\* number of edits the callers request in a behaviour, over all calls
MaxEdits == 4
\* s_common.now() ranges over 1..MaxTime
MaxTime == 2
\* number of waitUpstreamOffs events a behaviour creates
MaxWaits == 1
\* number of times the follower's process stops
MaxDowns == 1
\* number of getPropAbrv / getTagPropAbrv / getAbrvProp calls in a behaviour
MaxAbrvCalls == 4
\* entries the lru_cache of getPropAbrv and of getTagPropAbrv holds (10000 in
\* the source)
MemoSize == 2
\* maxsize of the windows getNodeEditWindow makes (10000 in the source); more
\* than MaxCalls, so that a window fills only when it starts nearly full
WindowMax == 4

\* --------------------------------------------------------- program constants
STOR_TYPE_U8 == 2
STOR_TYPE_I8 == 6
STOR_TYPE_TIME == 11
STOR_TYPE_IVAL == 12
STOR_TYPE_MSGP == 13
STOR_FLAG_ARRAY == 32768

EDIT_NODE_ADD == 0
EDIT_NODE_DEL == 1
EDIT_PROP_SET == 2
EDIT_PROP_DEL == 3
EDIT_TAG_SET == 4
EDIT_TAG_DEL == 5
EDIT_TAGPROP_SET == 6
EDIT_TAGPROP_DEL == 7
EDIT_NODEDATA_SET == 8
EDIT_NODEDATA_DEL == 9

None == "None"
NoneV == <<>>
\* None as an element of a value tuple: the msgpack nil byte 0xc0
Nil == 192
\* layrslab.get / replace / pop returning None
NoByts == <<>>

Range(s) == {s[i] : i \in DOMAIN s}

\* ------------------------------------------------------------------ domain
\* buids are content addresses of (form, value): the form and the primary
\* value of a buid are functions of the buid.
Buids == {1, 2, 3}
FormOf(buid) == IF buid = 3 THEN "Y" ELSE "X"
Forms == {"X", "Y"}
NdefValu(buid) == <<buid>>
NdefType(buid) == STOR_TYPE_U8

\* names beginning with '.' (universal props)
UnivProps == {".created"}
ArrayI8 == STOR_FLAG_ARRAY + STOR_TYPE_I8

\* --------------------------------------------------------------- stortypes
\* stortype & 0x8000
IsArray(stortype) == (stortype \div STOR_FLAG_ARRAY) % 2 = 1
\* stortype & 0x7fff
RealType(stortype) == stortype % STOR_FLAG_ARRAY

\* Layer.stortypes: size and signedness of the StorTypeInt handlers used here
IntSize(stortype) == CASE stortype = STOR_TYPE_U8 -> 1
                       [] stortype = STOR_TYPE_I8 -> 1
                       [] stortype = STOR_TYPE_TIME -> 8
IntSigned(stortype) == stortype \in {STOR_TYPE_I8, STOR_TYPE_TIME}

\* StorTypeInt.offset as big-endian bytes: 2 ** (size * 8 - 1) - 1 when signed
IntOffset(size, signed) ==
    [i \in 1..size |-> IF ~signed THEN 0 ELSE IF i = 1 THEN 127 ELSE 255]

\* big-endian addition of a small integer to a byte string (carry / borrow)
RECURSIVE AddInt(_, _)
AddInt(byts, n) ==
    IF Len(byts) = 0 THEN <<>>
    ELSE LET last == byts[Len(byts)] + n
             low  == last % 256
             carry == (last - low) \div 256
         IN  Append(AddInt(SubSeq(byts, 1, Len(byts) - 1), carry), low)

\* StorTypeInt.getIntIndx: (valu + self.offset).to_bytes(self.size, 'big')
getIntIndx(stortype, n) ==
    AddInt(IntOffset(IntSize(stortype), IntSigned(stortype)), n)

\* s_msgpack.en of a tuple of small non-negative integers: fixarray header
\* 0x90 + n, then one positive fixint per element
MsgpackEn(valu) == <<144 + Len(valu)>> \o valu
MsgpackUn(byts) == Tail(byts)

\* s_msgpack.en of an integer 0 .. 65535: positive fixint or uint16 (0xcd)
MsgpackEnInt(n) == IF n < 128 THEN <<n>> ELSE <<205, n \div 256, n % 256>>
MsgpackUnInt(byts) == IF Len(byts) = 1 THEN byts[1] ELSE byts[2] * 256 + byts[3]

\* s_msgpack.en((valu, stortype)): a scalar is one fixint, an array and an
\* interval a fixarray
MsgpackEnRow(valu, stortype) ==
    <<146>> \o (IF IsArray(stortype) \/ stortype = STOR_TYPE_IVAL
                THEN MsgpackEn(valu) ELSE valu)
            \o MsgpackEnInt(stortype)

\* s_msgpack.un of such a row: [valu, stortype]
MsgpackUnRow(byts) ==
    IF byts[2] >= 144
    THEN LET n == byts[2] - 144
         IN  [valu |-> SubSeq(byts, 3, 2 + n),
              stortype |-> MsgpackUnInt(SubSeq(byts, 3 + n, Len(byts)))]
    ELSE [valu |-> <<byts[2]>>,
          stortype |-> MsgpackUnInt(SubSeq(byts, 3, Len(byts)))]

\* s_common.buid(valu): the sha256 of the msgpack encoding, taken as a
\* collision-free digest; the leading 256 keeps it apart from other index bytes
MsgpIndx(valu) == <<256>> \o MsgpackEn(valu)

\* StorType.indx(valu) of the handler Layer.stortypes[stortype]
StorTypeIndx(stortype, valu) ==
    IF stortype = STOR_TYPE_MSGP THEN <<MsgpIndx(valu)>>
    ELSE IF stortype = STOR_TYPE_IVAL
    THEN <<getIntIndx(STOR_TYPE_TIME, valu[1]) \o getIntIndx(STOR_TYPE_TIME, valu[2])>>
    ELSE <<getIntIndx(stortype, valu[1])>>

\* Layer.getStorIndx
RECURSIVE ArrayIndx(_, _)
ArrayIndx(realtype, valu) ==
    IF valu = <<>> THEN <<>>
    ELSE StorTypeIndx(realtype, <<Head(valu)>>) \o ArrayIndx(realtype, Tail(valu))

getStorIndx(stortype, valu) ==
    IF IsArray(stortype) THEN ArrayIndx(RealType(stortype), valu)
    ELSE StorTypeIndx(stortype, valu)

\* ----------------------------------------------------------- abbreviations
\* the abbreviation of a name tuple stands for the tuple: the 8-byte id is
\* assigned once per tuple and never reused
getPropAbrv(form, prop) == <<form, prop>>
getTagPropAbrv(form, tag, prop) == <<form, tag, prop>>
tagAbrv(tag) == <<tag>>

\* ------------------------------------------------------------- layer state
\* bybuid keys: buid + flag byte + name ( + ':' + prop for tag props )
BKey(buid, flag, name, prop) == <<buid, flag, name, prop>>
FormKey(buid) == BKey(buid, 0, "", "")
PropKey(buid, prop) == BKey(buid, 1, prop, "")
TagKey(buid, tag) == BKey(buid, 2, tag, "")
TagPropKey(buid, tag, prop) == BKey(buid, 3, tag, prop)

\* a fresh layer: every database empty, no form counted
EmptyDb == [k \in {} |-> NoByts]
EmptyLayer ==
    [bybuid |-> EmptyDb, byprop |-> {}, byarray |-> {}, bytag |-> {},
     bytagprop |-> {}, nodedata |-> EmptyDb, formcounts |-> [f \in Forms |-> 0]]

\* slab primitives on a keyed database (a function on the keys present)
SlabGet(db, key) == IF key \in DOMAIN db THEN db[key] ELSE NoByts
SlabPut(db, key, byts) ==
    [k \in DOMAIN db \cup {key} |-> IF k = key THEN byts ELSE db[k]]
SlabPop(db, key) == [k \in DOMAIN db \ {key} |-> db[k]]

\* rows abrv + indx -> buid of a dupsort database
IndxRows(abrvs, indxs, buid) == {<<a, i, buid>> : a \in abrvs, i \in Range(indxs)}

\* ------------------------------------------------------------------- edits
\* an edit (kind, payload) as a record; fields a kind does not carry are
\* "" / NoneV / 0
Edit(kind, name, tag, valu, oldv, stortype) ==
    [kind |-> kind, name |-> name, tag |-> tag, valu |-> valu, oldv |-> oldv,
     stortype |-> stortype]
NodeAdd(valu, stortype) == Edit(EDIT_NODE_ADD, "", "", valu, NoneV, stortype)
NodeDel(valu, stortype) == Edit(EDIT_NODE_DEL, "", "", valu, NoneV, stortype)
PropSet(prop, valu, oldv, stortype) == Edit(EDIT_PROP_SET, prop, "", valu, oldv, stortype)
PropDel(prop, oldv, stortype) == Edit(EDIT_PROP_DEL, prop, "", oldv, NoneV, stortype)
TagSet(tag, valu, oldv) == Edit(EDIT_TAG_SET, "", tag, valu, oldv, 0)
TagDel(tag, oldv) == Edit(EDIT_TAG_DEL, "", tag, oldv, NoneV, 0)
TagPropSet(tag, prop, valu, oldv, stortype) ==
    Edit(EDIT_TAGPROP_SET, prop, tag, valu, oldv, stortype)
TagPropDel(tag, prop, oldv, stortype) ==
    Edit(EDIT_TAGPROP_DEL, prop, tag, oldv, NoneV, stortype)
NodeDataSet(name, valu, oldv) == Edit(EDIT_NODEDATA_SET, name, "", valu, oldv, 0)
NodeDataDel(name, valu) == Edit(EDIT_NODEDATA_DEL, name, "", valu, NoneV, 0)

\* what an editor hands back: the layer after it and the applied edits
Done(layr, items) == [layr |-> layr, items |-> items]

\* ----------------------------------------------------------------- editors
\* PropAbrvs without the universal alias (univabrv never computed)
PropAbrvsNoUniv(form, prop) == {getPropAbrv(form, prop)}

\* abbreviations a property is indexed under: (form, prop) and, for a
\* universal prop, (None, prop)
PropAbrvs(form, prop) ==
    {getPropAbrv(form, prop)} \cup
    (IF prop \in UnivProps THEN {getPropAbrv(None, prop)} ELSE {})

\* Layer._editPropSet
_editPropSet(layr, buid, form, edit) ==
    LET prop == edit.name
        valu == edit.valu
        stortype == edit.stortype
        bkey == PropKey(buid, prop)
        abrvs == PropAbrvs(form, prop)
        newb == MsgpackEnRow(valu, stortype)
        oldb == SlabGet(layr.bybuid, bkey)
        layr1 == [layr EXCEPT !.bybuid = SlabPut(@, bkey, newb)]
        old == MsgpackUnRow(oldb)
        oldv == IF oldb = NoByts THEN NoneV ELSE old.valu
        \* rows of the old value
        oldarray == IF oldb # NoByts /\ IsArray(old.stortype)
                    THEN IndxRows(abrvs, getStorIndx(old.stortype, old.valu), buid)
                    ELSE {}
        oldprop == IF oldb = NoByts THEN {}
                   ELSE IF IsArray(old.stortype)
                   THEN IndxRows(abrvs, getStorIndx(STOR_TYPE_MSGP, old.valu), buid)
                   ELSE IndxRows(abrvs, getStorIndx(old.stortype, old.valu), buid)
        \* rows of the new value
        newarray == IF IsArray(stortype)
                    THEN IndxRows(abrvs, getStorIndx(stortype, valu), buid)
                    ELSE {}
        newprop == IF IsArray(stortype)
                   THEN IndxRows(abrvs, getStorIndx(STOR_TYPE_MSGP, valu), buid)
                   ELSE IndxRows(abrvs, getStorIndx(stortype, valu), buid)
    IN  IF newb = oldb THEN Done(layr1, <<>>)
        ELSE IF oldb # NoByts /\ old.valu = valu /\ old.stortype = stortype
        THEN Done(layr1, <<>>)
        ELSE Done([layr1 EXCEPT !.byarray = (@ \ oldarray) \cup newarray,
                                !.byprop = (@ \ oldprop) \cup newprop],
                  <<PropSet(prop, valu, oldv, stortype)>>)

\* Layer._editPropDel
_editPropDel(layr, buid, form, edit) ==
    LET prop == edit.name
        bkey == PropKey(buid, prop)
        abrv == getPropAbrv(form, prop)
        univ == IF prop \in UnivProps THEN {getPropAbrv(None, prop)} ELSE {}
        byts == SlabGet(layr.bybuid, bkey)
        row == MsgpackUnRow(byts)
        layr1 == [layr EXCEPT !.bybuid = SlabPop(@, bkey)]
    IN  IF byts = NoByts THEN Done(layr, <<>>)
        ELSE IF IsArray(row.stortype)
        THEN \* the element rows are put under abrv and deleted under univabrv
             LET elems == getStorIndx(row.stortype, row.valu)
                 msgp == getStorIndx(STOR_TYPE_MSGP, row.valu)
             IN  Done([layr1 EXCEPT
                         !.byarray = (@ \cup IndxRows({abrv}, elems, buid))
                                        \ IndxRows(univ, elems, buid),
                         !.byprop = @ \ IndxRows({abrv} \cup univ, msgp, buid)],
                      <<PropDel(prop, row.valu, row.stortype)>>)
        ELSE Done([layr1 EXCEPT !.byprop =
                       @ \ IndxRows({abrv} \cup univ,
                                    getStorIndx(row.stortype, row.valu), buid)],
                  <<PropDel(prop, row.valu, row.stortype)>>)

\* FormRows with no row at all
FormRowsNone(form, valu, stortype, buid) == [byarray |-> {}, byprop |-> {}]

\* rows of a form value under A(form, None): [byarray, byprop]
FormRows(form, valu, stortype, buid) ==
    LET abrv == getPropAbrv(form, None)
    IN  IF IsArray(stortype)
        THEN [byarray |-> IndxRows({abrv}, getStorIndx(stortype, valu), buid),
              byprop |-> IndxRows({abrv}, getStorIndx(STOR_TYPE_MSGP, valu), buid)]
        ELSE [byarray |-> {},
              byprop |-> IndxRows({abrv}, getStorIndx(stortype, valu), buid)]

\* FormCountInc ignoring valu: every call counts one up
FormCountIncOne(formcounts, form, n) == [formcounts EXCEPT ![form] = @ + 1]

\* self.formcounts.inc(form) / self.formcounts.inc(form, valu=-1)
FormCountInc(formcounts, form, n) == [formcounts EXCEPT ![form] = @ + n]

\* PutRefused that never refuses (overwrite=True)
PutRefusedNever(db, key) == FALSE

\* layrslab.put(key, byts, overwrite=False) returns False: the key is there
PutRefused(db, key) == key \in DOMAIN db

\* Layer._editNodeAdd; now is s_common.now() at the call
_editNodeAdd(layr, buid, form, edit, now) ==
    LET valu == edit.valu
        stortype == edit.stortype
        rows == FormRows(form, valu, stortype, buid)
        created == PropSet(".created", <<now>>, NoneV, STOR_TYPE_TIME)
        layr1 == [layr EXCEPT
                    !.bybuid = SlabPut(@, FormKey(buid), <<form, valu, stortype>>),
                    !.byarray = @ \cup rows.byarray,
                    !.byprop = @ \cup rows.byprop,
                    !.formcounts = FormCountInc(@, form, 1)]
    IN  IF PutRefused(layr.bybuid, FormKey(buid)) THEN Done(layr, <<>>)
        ELSE Done(_editPropSet(layr1, buid, form, created).layr,
                  <<NodeAdd(valu, stortype), created>>)

\* Layer._wipeNodeData
_wipeNodeData(nodedata, buid) ==
    [k \in {x \in DOMAIN nodedata : x[1] # buid} |-> nodedata[k]]

\* _editNodeDel without the call of _wipeNodeData
_editNodeDelKeep(layr, buid, form, edit) ==
    LET byts == SlabGet(layr.bybuid, FormKey(buid))
        rows == FormRows(byts[1], byts[2], byts[3], buid)
    IN  IF byts = NoByts THEN Done(layr, <<>>)
        ELSE Done([layr EXCEPT
                     !.bybuid = SlabPop(@, FormKey(buid)),
                     !.byarray = @ \ rows.byarray,
                     !.byprop = @ \ rows.byprop,
                     !.formcounts = FormCountInc(@, byts[1], -1)],
                  <<NodeDel(byts[2], byts[3])>>)

\* Layer._editNodeDel: form, valu and stortype are those of the stored row
_editNodeDel(layr, buid, form, edit) ==
    LET byts == SlabGet(layr.bybuid, FormKey(buid))
        rows == FormRows(byts[1], byts[2], byts[3], buid)
    IN  IF byts = NoByts THEN Done(layr, <<>>)
        ELSE Done([layr EXCEPT
                     !.bybuid = SlabPop(@, FormKey(buid)),
                     !.byarray = @ \ rows.byarray,
                     !.byprop = @ \ rows.byprop,
                     !.formcounts = FormCountInc(@, byts[1], -1),
                     !.nodedata = _wipeNodeData(@, buid)],
                  <<NodeDel(byts[2], byts[3])>>)

\* Layer._editTagSet
_editTagSet(layr, buid, form, edit) ==
    LET tag == edit.tag
        valu == edit.valu
        oldb == SlabGet(layr.bybuid, TagKey(buid, tag))
        oldv == IF oldb = NoByts THEN edit.oldv ELSE MsgpackUn(oldb)
        layr1 == [layr EXCEPT !.bybuid = SlabPut(@, TagKey(buid, tag), MsgpackEn(valu))]
    IN  IF oldb # NoByts /\ oldv = valu THEN Done(layr1, <<>>)
        ELSE Done([layr1 EXCEPT !.bytag =
                       @ \cup {<<tagAbrv(tag), getPropAbrv(form, None), buid>>}],
                  <<TagSet(tag, valu, oldv)>>)

\* Layer._editTagDel
_editTagDel(layr, buid, form, edit) ==
    LET tag == edit.tag
        oldb == SlabGet(layr.bybuid, TagKey(buid, tag))
    IN  IF oldb = NoByts THEN Done(layr, <<>>)
        ELSE Done([layr EXCEPT
                     !.bybuid = SlabPop(@, TagKey(buid, tag)),
                     !.bytag = @ \ {<<tagAbrv(tag), getPropAbrv(form, None), buid>>}],
                  <<TagDel(tag, MsgpackUn(oldb))>>)

\* the three abbreviations of a tag prop
TagPropAbrvs(form, tag, prop) ==
    {getTagPropAbrv(None, None, prop), getTagPropAbrv(None, tag, prop),
     getTagPropAbrv(form, tag, prop)}

\* Layer._editTagPropSet
_editTagPropSet(layr, buid, form, edit) ==
    LET tag == edit.tag
        prop == edit.name
        valu == edit.valu
        stortype == edit.stortype
        abrvs == TagPropAbrvs(form, tag, prop)
        bkey == TagPropKey(buid, tag, prop)
        oldb == SlabGet(layr.bybuid, bkey)
        old == MsgpackUnRow(oldb)
        oldv == IF oldb = NoByts THEN edit.oldv ELSE old.valu
        oldrows == IF oldb = NoByts THEN {}
                   ELSE IndxRows(abrvs, getStorIndx(old.stortype, old.valu), buid)
        layr1 == [layr EXCEPT !.bybuid = SlabPut(@, bkey, MsgpackEnRow(valu, stortype))]
    IN  IF oldb # NoByts /\ valu = old.valu /\ stortype = old.stortype
        THEN Done(layr1, <<>>)
        ELSE Done([layr1 EXCEPT !.bytagprop =
                       (@ \ oldrows) \cup IndxRows(abrvs, getStorIndx(stortype, valu), buid)],
                  <<TagPropSet(tag, prop, valu, oldv, stortype)>>)

\* Layer._editTagPropDel
_editTagPropDel(layr, buid, form, edit) ==
    LET tag == edit.tag
        prop == edit.name
        abrvs == TagPropAbrvs(form, tag, prop)
        bkey == TagPropKey(buid, tag, prop)
        oldb == SlabGet(layr.bybuid, bkey)
        old == MsgpackUnRow(oldb)
    IN  IF oldb = NoByts THEN Done(layr, <<>>)
        ELSE Done([layr EXCEPT
                     !.bybuid = SlabPop(@, bkey),
                     !.bytagprop = @ \ IndxRows(abrvs, getStorIndx(old.stortype, old.valu), buid)],
                  <<TagPropDel(tag, prop, old.valu, old.stortype)>>)

\* nodedata keys: buid + A(name, None)
DataKey(buid, name) == <<buid, getPropAbrv(name, None)>>

\* Layer._editNodeDataSet: "oldb == valu" compares the stored bytes with the
\* new value, not with its encoding
_editNodeDataSet(layr, buid, form, edit) ==
    LET name == edit.name
        valu == edit.valu
        oldb == SlabGet(layr.nodedata, DataKey(buid, name))
        oldv == IF oldb = NoByts THEN edit.oldv ELSE MsgpackUn(oldb)
        layr1 == [layr EXCEPT !.nodedata = SlabPut(@, DataKey(buid, name), MsgpackEn(valu))]
    IN  IF oldb # NoByts /\ oldb = valu THEN Done(layr1, <<>>)
        ELSE Done(layr1, <<NodeDataSet(name, valu, oldv)>>)

\* Layer._editNodeDataDel
_editNodeDataDel(layr, buid, form, edit) ==
    LET name == edit.name
        oldb == SlabGet(layr.nodedata, DataKey(buid, name))
    IN  IF oldb = NoByts THEN Done(layr, <<>>)
        ELSE Done([layr EXCEPT !.nodedata = SlabPop(@, DataKey(buid, name))],
                  <<NodeDataDel(name, MsgpackUn(oldb))>>)

\* Layer.editors[edit[0]](buid, form, edit)
Editor(layr, buid, form, edit, now) ==
    CASE edit.kind = EDIT_NODE_ADD -> _editNodeAdd(layr, buid, form, edit, now)
      [] edit.kind = EDIT_NODE_DEL -> _editNodeDel(layr, buid, form, edit)
      [] edit.kind = EDIT_PROP_SET -> _editPropSet(layr, buid, form, edit)
      [] edit.kind = EDIT_PROP_DEL -> _editPropDel(layr, buid, form, edit)
      [] edit.kind = EDIT_TAG_SET -> _editTagSet(layr, buid, form, edit)
      [] edit.kind = EDIT_TAG_DEL -> _editTagDel(layr, buid, form, edit)
      [] edit.kind = EDIT_TAGPROP_SET -> _editTagPropSet(layr, buid, form, edit)
      [] edit.kind = EDIT_TAGPROP_DEL -> _editTagPropDel(layr, buid, form, edit)
      [] edit.kind = EDIT_NODEDATA_SET -> _editNodeDataSet(layr, buid, form, edit)
      [] edit.kind = EDIT_NODEDATA_DEL -> _editNodeDataDel(layr, buid, form, edit)

\* a node-edit (buid, form, edits)
NodeEdit(buid, form, edits) == [buid |-> buid, form |-> form, edits |-> edits]

\* changed.extend(items): acc is the layer and the list so far, r what the
\* editor handed back
Extend(acc, r) == Done(r.layr, acc.items \o r.items)

\* EditLoop running the editors from the last edit to the first
RECURSIVE EditLoopRev(_, _, _, _, _)
EditLoopRev(acc, buid, form, edits, now) ==
    IF edits = <<>> THEN acc
    ELSE EditLoopRev(Extend(acc, Editor(acc.layr, buid, form, edits[Len(edits)], now)),
                     buid, form, SubSeq(edits, 1, Len(edits) - 1), now)

\* the loop of Layer._storNodeEdit: the editors in the order of the edits,
\* each on the layer the previous one left
RECURSIVE EditLoop(_, _, _, _, _)
EditLoop(acc, buid, form, edits, now) ==
    IF edits = <<>> THEN acc
    ELSE EditLoop(Extend(acc, Editor(acc.layr, buid, form, Head(edits), now)),
                  buid, form, Tail(edits), now)

\* the first item only of what a run of the editors handed back
FirstOnly(r) == Done(r.layr, IF r.items = <<>> THEN <<>> ELSE <<Head(r.items)>>)

\* _storNodeEdit handing back only the first item of what the editors returned
_storNodeEditFirst(layr, nodeedit, now) ==
    FirstOnly(EditLoop(Done(layr, <<>>), nodeedit.buid, nodeedit.form, nodeedit.edits, now))

\* Layer._storNodeEdit
_storNodeEdit(layr, nodeedit, now) ==
    EditLoop(Done(layr, <<>>), nodeedit.buid, nodeedit.form, nodeedit.edits, now)

\* ------------------------------------------------------------ the node-edit log
\* SlabSeqnAdd putting the item before the others
SlabSeqnAddFront(seqn, item) == [seqn |-> <<item>> \o seqn, indx |-> Len(seqn)]

\* SlabSeqn.add: the item goes under key indx, indx advances, the old indx
\* is returned.  The log is the sequence of its items; offset n is item n + 1.
SlabSeqnAdd(seqn, item) == [seqn |-> Append(seqn, item), indx |-> Len(seqn)]

\* SlabSeqn.index / Layer.getNodeEditOffset
getNodeEditOffset(seqn) == Len(seqn)

\* OffsetsSet that writes a name only while it is absent
OffsetsSetOnce(offs, name, valu) ==
    IF name \in DOMAIN offs THEN offs
    ELSE [k \in DOMAIN offs \cup {name} |-> IF k = name THEN valu ELSE offs[k]]

\* HotCount.set on the offsets
OffsetsSet(offs, name, valu) ==
    [k \in DOMAIN offs \cup {name} |-> IF k = name THEN valu ELSE offs[k]]

\* WindowsPut putting the item at the head of every queue
WindowsPutFront(winds, item) == [w \in DOMAIN winds |-> <<item>> \o winds[w]]

\* Window.put finds its queue at maxsize
WindowFull(q) == Len(q) >= WindowMax

\* WindowsPut that keeps a window whatever its queue holds
WindowsPutKeep(winds, item) == [w \in DOMAIN winds |-> Append(winds[w], item)]

\* [(await wind.put((offs, changes))) for wind in tuple(self.windows)]: the
\* item is appended to the queue of every registered window; a window whose
\* queue is full then is finalized, and its fini removes it from self.windows
WindowsPut(winds, item) ==
    [w \in {x \in DOMAIN winds : ~WindowFull(Append(winds[x], item))} |->
        Append(winds[w], item)]

\* one element of the comprehension: (e[0], e[1], changed) joins the list
ChangesPut(acc, nodeedit, r) ==
    [layr |-> r.layr,
     changes |-> Append(acc.changes, NodeEdit(nodeedit.buid, nodeedit.form, r.items))]

\* changes = [(e[0], e[1], await self._storNodeEdit(e)) for e in nodeedits];
\* acc is the layer and the list so far
RECURSIVE Changes(_, _, _)
Changes(acc, nodeedits, now) ==
    IF nodeedits = <<>> THEN acc
    ELSE Changes(ChangesPut(acc, Head(nodeedits),
                            _storNodeEdit(acc.layr, Head(nodeedits), now)),
                 Tail(nodeedits), now)

\* StorTypeInt.getIntIndx raises OverflowError when valu + offset does not
\* fit in size bytes (one byte for U8 and I8, offset 127 for I8)
CanIndxOne(stortype, n) ==
    IF stortype = STOR_TYPE_U8 THEN n \in 0..255
    ELSE IF stortype = STOR_TYPE_I8 THEN n + 127 \in 0..255
    ELSE TRUE

\* getStorIndx(stortype, valu) returns
CanIndx(stortype, valu) ==
    \A i \in DOMAIN valu : CanIndxOne(RealType(stortype), valu[i])

\* _editPropSet raises: the row differs from the stored one and the new
\* value has no index bytes
PropSetRaises(L, buid, edit) ==
    /\ edit.kind = EDIT_PROP_SET
    /\ ~CanIndx(edit.stortype, edit.valu)
    /\ SlabGet(L.bybuid, PropKey(buid, edit.name)) # MsgpackEnRow(edit.valu, edit.stortype)

\* the index rows _editPropSet deletes for the stored row oldb
OldPropRows(abrvs, oldb, buid) ==
    IF oldb = NoByts THEN [byarray |-> {}, byprop |-> {}]
    ELSE IF IsArray(MsgpackUnRow(oldb).stortype)
    THEN [byarray |-> IndxRows(abrvs, getStorIndx(MsgpackUnRow(oldb).stortype,
                                                   MsgpackUnRow(oldb).valu), buid),
          byprop |-> IndxRows(abrvs, getStorIndx(STOR_TYPE_MSGP, MsgpackUnRow(oldb).valu), buid)]
    ELSE [byarray |-> {},
          byprop |-> IndxRows(abrvs, getStorIndx(MsgpackUnRow(oldb).stortype,
                                                  MsgpackUnRow(oldb).valu), buid)]

\* Layer._editPropSet up to the getStorIndx that raises: the bybuid row is
\* replaced and the index rows of the old value are deleted
_editPropSetRaise(L, buid, form, edit) ==
    LET old == OldPropRows(PropAbrvs(form, edit.name),
                           SlabGet(L.bybuid, PropKey(buid, edit.name)), buid)
    IN  [L EXCEPT !.bybuid = SlabPut(@, PropKey(buid, edit.name),
                                     MsgpackEnRow(edit.valu, edit.stortype)),
                  !.byarray = @ \ old.byarray,
                  !.byprop = @ \ old.byprop]

\* the loop of _storNodeEdit up to an editor that raises: raised tells
\* whether one did, layr is what the slab holds then
RECURSIVE RaiseLoop(_, _, _, _, _)
RaiseLoop(L, buid, form, edits, now) ==
    IF edits = <<>> THEN [raised |-> FALSE, layr |-> L]
    ELSE IF PropSetRaises(L, buid, Head(edits))
    THEN [raised |-> TRUE, layr |-> _editPropSetRaise(L, buid, form, Head(edits))]
    ELSE RaiseLoop(Editor(L, buid, form, Head(edits), now).layr, buid, form, Tail(edits), now)

_storNodeEditRaise(L, nodeedit, now) ==
    RaiseLoop(L, nodeedit.buid, nodeedit.form, nodeedit.edits, now)

\* SlabDiscard keeping what the aborted call had written
SlabKeep(began, written) == written

\* the backend discards the write transaction of an aborted call: the slabs
\* hold what they held when it began, not what the call had written
SlabDiscard(began, written) == began

\* Layer.getStorNode: (buid, {ndef, props, tags, tagprops})
getStorNode(layr, buid) ==
    LET keys == {k \in DOMAIN layr.bybuid : k[1] = buid}
    IN  [buid |-> buid,
         ndef |-> IF FormKey(buid) \in keys
                  THEN <<layr.bybuid[FormKey(buid)][1], layr.bybuid[FormKey(buid)][2]>>
                  ELSE <<>>,
         props |-> [k \in {x \in keys : x[2] = 1} |-> MsgpackUnRow(layr.bybuid[k]).valu],
         tags |-> [k \in {x \in keys : x[2] = 2} |-> MsgpackUn(layr.bybuid[k])],
         tagprops |-> [k \in {x \in keys : x[2] = 3} |-> MsgpackUnRow(layr.bybuid[k]).valu]]

\* byte order of two byte strings
RECURSIVE BytsLess(_, _)
BytsLess(a, b) ==
    IF b = <<>> THEN FALSE
    ELSE IF a = <<>> THEN TRUE
    ELSE IF Head(a) # Head(b) THEN Head(a) < Head(b)
    ELSE BytsLess(Tail(a), Tail(b))

\* order of two rows abrv + indx -> buid under one abrv: by indx, then by buid
RowLess(r, t) == BytsLess(r[2], t[2]) \/ (r[2] = t[2] /\ r[3] < t[3])

\* the rows of S in scan order
RECURSIVE ScanOrder(_)
ScanOrder(S) ==
    IF S = {} THEN <<>>
    ELSE LET r == CHOOSE x \in S : \A y \in S \ {x} : RowLess(x, y)
         IN  <<r>> \o ScanOrder(S \ {r})

\* layrslab.scanByPref(abrv, db): the buids of the rows under abrv, in order
ScanByPref(db, abrv) ==
    LET rows == ScanOrder({r \in db : r[1] = abrv})
    IN  [i \in DOMAIN rows |-> rows[i][3]]

\* Layer.liftByProp(form, prop): the buids whose storage nodes it yields
liftByProp(L, form, prop) == ScanByPref(L.byprop, getPropAbrv(form, prop))

\* ------------------------------------------------------------ abbreviators
\* s_common.int64en / int64un: 8 bytes, big-endian (ids below 65536)
Int64En(n) ==
    [i \in 1..8 |-> IF i = 8 THEN n % 256 ELSE IF i = 7 THEN (n \div 256) % 256 ELSE 0]
Int64Un(byts) == byts[7] * 256 + byts[8]

\* the position of a name in the table of an abbreviator
AbrvIndex(tbl, byts) == CHOOSE i \in DOMAIN tbl : tbl[i] = byts

\* SlabAbrv.bytsToAbrv: the id of the name; a name not in the table gets the
\* next id and is written down.  A table is the sequence of its names, the
\* name at position i has id i - 1.
bytsToAbrv(tbl, byts) ==
    IF \E i \in DOMAIN tbl : tbl[i] = byts
    THEN [tbl |-> tbl, abrv |-> Int64En(AbrvIndex(tbl, byts) - 1)]
    ELSE [tbl |-> Append(tbl, byts), abrv |-> Int64En(Len(tbl))]

\* SlabAbrv.abrvToByts: the name of an id, None for an id never assigned
abrvToByts(tbl, id) ==
    IF Int64Un(id) + 1 \in DOMAIN tbl THEN tbl[Int64Un(id) + 1] ELSE NoByts

\* functools.lru_cache: the entries <<args, valu>>, the most recently used
\* first
MemoHas(memo, args) == \E i \in DOMAIN memo : memo[i][1] = args
MemoAt(memo, args) == CHOOSE i \in DOMAIN memo : memo[i][1] = args
MemoHit(memo, args) ==
    <<memo[MemoAt(memo, args)]>> \o
    SelectSeq(memo, LAMBDA e : e[1] # args)
MemoPut(memo, args, valu, size) ==
    SubSeq(<<<<args, valu>>>> \o memo, 1, IF Len(memo) + 1 > size THEN size ELSE Len(memo) + 1)

\* s_msgpack.en((form)): the key without the property
PropAbrvBytsForm(form, prop) == <<145, form>>

\* s_msgpack.en((form, prop)): fixarray header and the two names
PropAbrvByts(form, prop) == <<146, form, prop>>

\* s_msgpack.en(args) of getTagPropAbrv(form, tag, prop)
TagPropAbrvByts(form, tag, prop) == <<147, form, tag, prop>>

\* the abbreviators of a fresh layer slab and the empty caches of a layer
\* object; hist is the record of the calls made and what they returned
EmptyAbrv ==
    [propabrv |-> <<>>, tagpropabrv |-> <<>>, tagabrv |-> <<>>,
     propmemo |-> <<>>, tagpropmemo |-> <<>>, hist |-> <<>>]

\* Layer.getPropAbrv through its lru_cache of size size: [a, retn]
LayerGetPropAbrv(a, form, prop, size) ==
    IF MemoHas(a.propmemo, <<form, prop>>)
    THEN [a |-> [a EXCEPT !.propmemo = MemoHit(@, <<form, prop>>)],
          retn |-> a.propmemo[MemoAt(a.propmemo, <<form, prop>>)][2]]
    ELSE [a |-> [a EXCEPT !.propabrv = bytsToAbrv(@, PropAbrvByts(form, prop)).tbl,
                          !.propmemo = MemoPut(@, <<form, prop>>,
                                bytsToAbrv(a.propabrv, PropAbrvByts(form, prop)).abrv, size)],
          retn |-> bytsToAbrv(a.propabrv, PropAbrvByts(form, prop)).abrv]

\* Layer.getTagPropAbrv through its lru_cache
LayerGetTagPropAbrv(a, form, tag, prop, size) ==
    IF MemoHas(a.tagpropmemo, <<form, tag, prop>>)
    THEN [a |-> [a EXCEPT !.tagpropmemo = MemoHit(@, <<form, tag, prop>>)],
          retn |-> a.tagpropmemo[MemoAt(a.tagpropmemo, <<form, tag, prop>>)][2]]
    ELSE [a |-> [a EXCEPT !.tagpropabrv = bytsToAbrv(@, TagPropAbrvByts(form, tag, prop)).tbl,
                          !.tagpropmemo = MemoPut(@, <<form, tag, prop>>,
                                bytsToAbrv(a.tagpropabrv, TagPropAbrvByts(form, tag, prop)).abrv,
                                size)],
          retn |-> bytsToAbrv(a.tagpropabrv, TagPropAbrvByts(form, tag, prop)).abrv]

\* Layer.getAbrvProp: s_msgpack.un of the name, None when there is none
getAbrvProp(a, id) ==
    IF abrvToByts(a.propabrv, id) = NoByts THEN NoneV ELSE Tail(abrvToByts(a.propabrv, id))

\* a new process: the slab's tables stay, the caches of the new layer object
\* are empty
AbrvAnit(a) == [a EXCEPT !.propmemo = <<>>, !.tagpropmemo = <<>>]

\* ------------------------------------------------------- log offset waiters
\* no lift or index request was made yet
NoLift == [fn |-> "none"]

\* SlabSeqn.offsevents of a new object; evnts are the events getOffsetEvent
\* made (offs, set, and at, what index() was then), waiters the calls of
\* waitForOffset (offs, the event waited on, 0 for none, and what was returned)
NoWaits == [offsevents |-> <<>>, waitcounter |-> 0, evnts |-> <<>>, waiters |-> <<>>]

\* the order of the heap: tuples (offs, counter, event) compare by offs, then
\* by counter
HeapLess(a, b) == a[1] < b[1] \/ (a[1] = b[1] /\ a[2] < b[2])

\* heapq.heappush / heappop: the heap is kept as the sequence heappop would
\* hand out
heappush(heap, item) ==
    SelectSeq(heap, LAMBDA x : HeapLess(x, item)) \o <<item>> \o
    SelectSeq(heap, LAMBDA x : ~HeapLess(x, item))

\* _wake_waiters with an if for its while: the head alone is popped and set
_wake_waitersHead(w, indx) ==
    IF w.offsevents # <<>> /\ Head(w.offsevents)[1] < indx
    THEN [w EXCEPT !.offsevents = Tail(@), !.evnts[Head(w.offsevents)[3]].set = TRUE]
    ELSE w

\* SlabSeqn._wake_waiters: while the head of the heap has offs < self.indx it
\* is popped and its event set
RECURSIVE _wake_waiters(_, _)
_wake_waiters(w, indx) ==
    IF w.offsevents # <<>> /\ Head(w.offsevents)[1] < indx
    THEN _wake_waiters([w EXCEPT !.offsevents = Tail(@),
                                 !.evnts[Head(w.offsevents)[3]].set = TRUE], indx)
    ELSE w

\* SlabSeqn.getOffsetEvent(offs): the event is set at once when offs <
\* self.indx, else it is pushed with the counter, which advances
SeqnOffsetEvent(w, offs, indx) ==
    IF offs < indx
    THEN [w EXCEPT !.evnts = Append(@, [offs |-> offs, set |-> TRUE, at |-> indx])]
    ELSE [w EXCEPT !.evnts = Append(@, [offs |-> offs, set |-> FALSE, at |-> indx]),
                   !.offsevents = heappush(@, <<offs, w.waitcounter, Len(w.evnts) + 1>>),
                   !.waitcounter = @ + 1]

\* ------------------------------------------------- a SlabSeqn by its keys
\* the None of Scan.last_key, which is no key
NoKey == <<>>

\* Scan.last_key: the greatest key of the database, None when it has no rows
last_key(rows) ==
    IF DOMAIN rows = {} THEN NoKey
    ELSE CHOOSE k \in DOMAIN rows : \A j \in DOMAIN rows \ {k} : BytsLess(j, k)

\* nextindx handing back the offset of the last key itself
nextindxLast(rows) ==
    IF last_key(rows) # NoKey THEN Int64Un(last_key(rows)) ELSE 0

\* SlabSeqn.nextindx: the offset of the last key plus one, 0 when there is none
nextindx(rows) ==
    IF last_key(rows) # NoKey THEN Int64Un(last_key(rows)) + 1 ELSE 0

\* no call was made on the object yet
NoCall == [op |-> "none"]

\* SlabSeqn.__init__ on the rows of the named database: call is the last call
\* made on the object (its method, its arguments, what it returned)
SlabSeqnInit(rows) ==
    [rows |-> rows, indx |-> nextindx(rows), w |-> NoWaits, call |-> NoCall]

\* a SlabSeqn opened on a new slab
NewSeqn == SlabSeqnInit([k \in {} |-> <<>>])

\* slab.put(lkey, byts, db=self.db)
RowPut(rows, lkey, byts) ==
    [k \in DOMAIN rows \cup {lkey} |-> IF k = lkey THEN byts ELSE rows[k]]

\* SlabSeqn.add(item)
add(s, item) ==
    [rows |-> RowPut(s.rows, Int64En(s.indx), MsgpackEn(item)),
     indx |-> s.indx + 1,
     w |-> _wake_waiters(s.w, s.indx + 1),
     call |-> [op |-> "add", args |-> item, retn |-> s.indx]]

\* the loop of save: the rows (lkey, byts) of the items from indx on
RECURSIVE SaveRows(_, _)
SaveRows(items, indx) ==
    IF items = <<>> THEN <<>>
    ELSE <<<<Int64En(indx), MsgpackEn(Head(items))>>>> \o SaveRows(Tail(items), indx + 1)

\* size += len(byts) over the rows
RECURSIVE SaveSize(_)
SaveSize(kvs) == IF kvs = <<>> THEN 0 ELSE Len(Head(kvs)[2]) + SaveSize(Tail(kvs))

\* slab.putmulti(rows, append=True, db=self.db)
RECURSIVE putmulti(_, _)
putmulti(rows, kvs) ==
    IF kvs = <<>> THEN rows
    ELSE putmulti(RowPut(rows, Head(kvs)[1], Head(kvs)[2]), Tail(kvs))

\* SlabSeqn.save(items) at time tick
save(s, items, tick) ==
    LET kvs == SaveRows(items, s.indx)
        indx == s.indx + Len(items)
    IN  [rows |-> putmulti(s.rows, kvs),
         indx |-> indx,
         w |-> _wake_waiters(s.w, indx),
         call |-> [op |-> "save", args |-> items,
                   retn |-> [indx |-> indx, size |-> SaveSize(kvs), count |-> Len(items),
                             time |-> tick, took |-> 0, orig |-> s.indx]]]

\* SlabSeqn.index
index(s) == s.indx

\* slab.scanByRange(lmin, db=self.db): the rows with key >= lmin, in key order
RECURSIVE scanByRange(_, _)
scanByRange(rows, lmin) ==
    LET ks == {k \in DOMAIN rows : ~BytsLess(k, lmin)}
    IN  IF ks = {} THEN <<>>
        ELSE LET k == CHOOSE x \in ks : \A y \in ks \ {x} : BytsLess(x, y)
             IN  <<<<k, rows[k]>>>>
                 \o scanByRange([j \in DOMAIN rows \ {k} |-> rows[j]], lmin)

\* SlabSeqn.iter(offs): (indx, valu) of every row scanned from int64en(offs)
iter(s, offs) ==
    LET scan == scanByRange(s.rows, Int64En(offs))
    IN  [i \in DOMAIN scan |-> <<Int64Un(scan[i][1]), MsgpackUn(scan[i][2])>>]

\* -------------------------------------------------------------------- state
VARIABLES
    layr,          \* the databases of the layer slab
    nodeeditlog,   \* the node-edit log (nodeedits.lmdb)
    offsets,       \* the offsets hot counter
    windows,       \* registered live windows: window -> queued items
    calls,         \* the storNodeEdits / storNodeEditsNoLift calls in flight
    nexslock,      \* the call the nexus is running, 0 when none
    clock,         \* s_common.now()
    up,            \* the process is running
    hist,          \* history: which call ran a node-edit / appended at which offset
    ncalls,        \* calls issued so far
    nedits,        \* edits requested so far
    foll,          \* a second layer following this one as its upstream
    abrv,          \* the name abbreviators of the layer slab and their memo caches
    waits,         \* the offset waiters of the node-edit log
    lift,          \* the last lift or index request and what it gave
    slabseqn       \* a SlabSeqn over its own database: rows by key, self.indx

vars == <<layr, nodeeditlog, offsets, windows, calls, nexslock, clock, up, hist,
          ncalls, nedits, foll, abrv, waits, lift, slabseqn>>

Calls == {1, 2}
Windows == {1}
EmptyMeta == "{}"
APPLIED == "nodeedit:applied"

IdleCall == [pc |-> "idle", nodeedits |-> <<>>, meta |-> EmptyMeta, nolift |-> FALSE,
             idx |-> 0, changes |-> <<>>, offs |-> -1, inv |-> 0, snap |-> EmptyLayer]

\* the iterLayerNodeEdits generator before its first row: nodeedits =
\* (None, None, None), buid 0 standing for None
GenInit ==
    [cursor |-> <<>>, cur |-> NodeEdit(0, "", <<>>), resumed |-> FALSE, done |-> FALSE]

\* a second layer, constructed empty, with no upstream task connected yet
EmptyFoll ==
    [up |-> TRUE, pc |-> "idle", layr |-> EmptyLayer, seqn |-> <<>>,
     offsets |-> [k \in {} |-> 0], bootoffs |-> 0, gen |-> GenInit,
     sync |-> "none", next |-> 0, q |-> <<>>, evnts |-> <<>>,
     bootcalls |-> -1, downs |-> 0, isfini |-> FALSE, fails |-> 0]

Init ==
    /\ layr = EmptyLayer
    /\ nodeeditlog = <<>>
    /\ offsets = [k \in {} |-> 0]
    /\ windows = [w \in {} |-> <<>>]
    /\ calls = [c \in Calls |-> IdleCall]
    /\ nexslock = 0
    /\ clock = 1
    /\ up = TRUE
    /\ hist = <<>>
    /\ ncalls = 0
    /\ nedits = 0
    /\ foll = EmptyFoll
    /\ abrv = EmptyAbrv
    /\ waits = NoWaits
    /\ lift = NoLift
    /\ slabseqn = NewSeqn

RECURSIVE EditCount(_)
EditCount(nodeedits) ==
    IF nodeedits = <<>> THEN 0
    ELSE Len(Head(nodeedits).edits) + EditCount(Tail(nodeedits))

\* the per-layer write lock of the nexus push: a call runs when no other does
NexusFree(lock) == lock = 0

\* a caller issues storNodeEdits(nodeedits, meta) (nolift: storNodeEditsNoLift);
\* the push waits for the nexus
Issue(c, nodeedits, meta, nolift) ==
    /\ up
    /\ calls[c].pc = "idle"
    /\ ncalls < MaxCalls
    /\ nedits + EditCount(nodeedits) <= MaxEdits
    /\ calls' = [calls EXCEPT ![c] = [IdleCall EXCEPT !.pc = "wait",
                                          !.nodeedits = nodeedits, !.meta = meta,
                                          !.nolift = nolift, !.inv = ncalls + 1]]
    /\ ncalls' = ncalls + 1
    /\ nedits' = nedits + EditCount(nodeedits)
    /\ UNCHANGED <<layr, nodeeditlog, offsets, windows, nexslock, clock, up, hist, foll,
                   abrv, waits, lift, slabseqn>>

storNodeEdits(c, nodeedits, meta) == Issue(c, nodeedits, meta, FALSE)
storNodeEditsNoLift(c, nodeedits, meta) == Issue(c, nodeedits, meta, TRUE)

\* the nexus hands the call to its handler; the call's write transaction
\* starts from what the slabs hold (snap)
NexusRun(c) ==
    /\ up
    /\ calls[c].pc = "wait"
    /\ NexusFree(nexslock)
    /\ nexslock' = c
    /\ calls' = [calls EXCEPT ![c].pc = "edits", ![c].snap = layr]
    /\ UNCHANGED <<layr, nodeeditlog, offsets, windows, clock, up, hist, ncalls, nedits, foll,
                   abrv, waits, lift, slabseqn>>

\* one element of the comprehension: _storNodeEdit of the next node-edit, up
\* to its asyncio.sleep(0)
StorNodeEditStep(c) ==
    /\ up
    /\ calls[c].pc = "edits"
    /\ calls[c].idx < Len(calls[c].nodeedits)
    /\ ~_storNodeEditRaise(layr, calls[c].nodeedits[calls[c].idx + 1], clock).raised
    /\ LET ne == calls[c].nodeedits[calls[c].idx + 1]
           r == _storNodeEdit(layr, ne, clock)
       IN  /\ layr' = r.layr
           /\ calls' = [calls EXCEPT ![c].idx = @ + 1,
                                     ![c].changes = Append(@, NodeEdit(ne.buid, ne.form, r.items))]
    /\ hist' = Append(hist, [inv |-> calls[c].inv, offs |-> -1])
    /\ UNCHANGED <<nodeeditlog, offsets, windows, nexslock, clock, up, ncalls, nedits, foll,
                   abrv, waits, lift, slabseqn>>

\* offs = self.nodeeditlog.add((changes, meta)) and the puts to the windows
LogAdd(c) ==
    /\ up
    /\ calls[c].pc = "edits"
    /\ calls[c].idx = Len(calls[c].nodeedits)
    /\ LET r == SlabSeqnAdd(nodeeditlog, [changes |-> calls[c].changes, meta |-> calls[c].meta])
       IN  /\ nodeeditlog' = r.seqn
           /\ windows' = WindowsPut(windows, <<r.indx, calls[c].changes>>)
           /\ calls' = [calls EXCEPT ![c].pc = "logged", ![c].offs = r.indx]
           /\ hist' = Append(hist, [inv |-> calls[c].inv, offs |-> r.indx])
           /\ waits' = _wake_waiters(waits, Len(r.seqn))
    /\ UNCHANGED <<layr, offsets, nexslock, clock, up, ncalls, nedits, foll,
                   abrv, lift, slabseqn>>

\* self.offsets.set('nodeedit:applied', offs), and the call returns
SetApplied(c) ==
    /\ up
    /\ calls[c].pc = "logged"
    /\ offsets' = OffsetsSet(offsets, APPLIED, calls[c].offs)
    /\ calls' = [calls EXCEPT ![c] = IdleCall]
    /\ nexslock' = 0
    /\ UNCHANGED <<layr, nodeeditlog, windows, clock, up, hist, ncalls, nedits, foll,
                   abrv, waits, lift, slabseqn>>

\* what the caller of an aborted call gets: the exception, no offset
Failure(call) == [inv |-> call.inv, offs |-> -2]

\* the call ends with an exception: nodeeditlog.add, the windows and
\* offsets.set are never reached, the nexus is free again, and the backend
\* drops what the call wrote
Abort(c, written) ==
    /\ layr' = SlabDiscard(calls[c].snap, written)
    /\ calls' = [calls EXCEPT ![c] = IdleCall]
    /\ nexslock' = 0
    /\ hist' = Append(hist, Failure(calls[c]))
    /\ UNCHANGED <<nodeeditlog, offsets, windows, clock, up, ncalls, nedits, foll,
                   abrv, waits, lift, slabseqn>>

\* an editor of the next node-edit raises (getStorIndx on a value its
\* stortype cannot index): the exception leaves _storNodeEdit and the
\* comprehension of storNodeEdits
StorNodeEditRaise(c) ==
    /\ up
    /\ calls[c].pc = "edits"
    /\ calls[c].idx < Len(calls[c].nodeedits)
    /\ _storNodeEditRaise(layr, calls[c].nodeedits[calls[c].idx + 1], clock).raised
    /\ Abort(c, _storNodeEditRaise(layr, calls[c].nodeedits[calls[c].idx + 1], clock).layr)

\* the call is cancelled while it is suspended in the asyncio.sleep(0) that
\* ends a node-edit
CancelCall(c) ==
    /\ up
    /\ calls[c].pc = "edits"
    /\ calls[c].idx >= 1
    /\ Abort(c, layr)

\* time passes
Tick ==
    /\ clock < MaxTime
    /\ clock' = clock + 1
    /\ UNCHANGED <<layr, nodeeditlog, offsets, windows, calls, nexslock, up, hist,
                   ncalls, nedits, foll,
                   abrv, waits, lift, slabseqn>>

\* Layer.getNodeEditWindow: a consumer registers a window
getNodeEditWindow(w) ==
    /\ up
    /\ w \notin DOMAIN windows
    /\ windows' = [x \in DOMAIN windows \cup {w} |-> IF x = w THEN <<>> ELSE windows[x]]
    /\ UNCHANGED <<layr, nodeeditlog, offsets, calls, nexslock, clock, up, hist,
                   ncalls, nedits, foll,
                   abrv, waits, lift, slabseqn>>

\* the consumer takes the next item of its window
WindowGet(w) ==
    /\ up
    /\ w \in DOMAIN windows
    /\ windows[w] # <<>>
    /\ windows' = [windows EXCEPT ![w] = Tail(@)]
    /\ UNCHANGED <<layr, nodeeditlog, offsets, calls, nexslock, clock, up, hist,
                   ncalls, nedits, foll,
                   abrv, waits, lift, slabseqn>>

\* the consumer leaves the scope: the window's fini removes it
WindowFini(w) ==
    /\ up
    /\ w \in DOMAIN windows
    /\ windows' = [x \in DOMAIN windows \ {w} |-> windows[x]]
    /\ UNCHANGED <<layr, nodeeditlog, offsets, calls, nexslock, clock, up, hist,
                   ncalls, nedits, foll,
                   abrv, waits, lift, slabseqn>>

\* ------------------------------------------------------------ crash, restart
\* RunSet that leaves the offsets as they were
RunSetSkip(st, r, a) == [layr |-> r.layr, seqn |-> a.seqn, offsets |-> st.offsets]

\* self.offsets.set('nodeedit:applied', offs) of a run: r the changes, a what
\* nodeeditlog.add gave
RunSet(st, r, a) ==
    [layr |-> r.layr, seqn |-> a.seqn, offsets |-> OffsetsSet(st.offsets, APPLIED, a.indx)]

\* offs = self.nodeeditlog.add((changes, meta)) of a run
RunAdd(st, r, meta) ==
    RunSet(st, r, SlabSeqnAdd(st.seqn, [changes |-> r.changes, meta |-> meta]))

\* storNodeEditsNoLift run to its end on [layr, seqn, offsets] (no window is
\* registered while the layer is being constructed)
StorNodeEditsRun(st, nodeedits, meta, now) ==
    RunAdd(st, Changes([layr |-> st.layr, changes |-> <<>>], nodeedits, now), meta)

\* storNodeEditsNoLift from its first line to its last, on [layr, seqn,
\* offsets, winds]: what it leaves and what it returns (nothing)
NoLiftRun(st, nodeedits, meta, now) ==
    LET r == StorNodeEditsRun([layr |-> st.layr, seqn |-> st.seqn, offsets |-> st.offsets],
                              nodeedits, meta, now)
    IN  [layr |-> r.layr, seqn |-> r.seqn, offsets |-> r.offsets,
         winds |-> WindowsPut(st.winds, <<Len(st.seqn), r.seqn[Len(r.seqn)].changes>>),
         retn |-> NoneV]

\* retn of storNodeEdits: for every (buid, form, changed) of changes the
\* storage node with sode[1]['edits'] = changed
LiftRetn(L, changes) ==
    [i \in DOMAIN changes |->
        [sode |-> getStorNode(L, changes[i].buid), edits |-> changes[i].edits]]

\* storNodeEdits from its first line to its last
LiftRun(st, nodeedits, meta, now) ==
    LET c == Changes([layr |-> st.layr, changes |-> <<>>], nodeedits, now)
        a == SlabSeqnAdd(st.seqn, [changes |-> c.changes, meta |-> meta])
    IN  [layr |-> c.layr, seqn |-> a.seqn,
         offsets |-> OffsetsSet(st.offsets, APPLIED, a.indx),
         winds |-> WindowsPut(st.winds, <<a.indx, c.changes>>),
         retn |-> LiftRetn(c.layr, c.changes)]

\* [await self.storNodeEditsNoLift(e, {}) for e in nodeedits]
RECURSIVE ReplayEdits(_, _, _)
ReplayEdits(st, tail, now) ==
    IF tail = <<>> THEN st
    ELSE ReplayEdits(StorNodeEditsRun(st, Head(tail).changes, EmptyMeta, now), Tail(tail), now)

\* the offset Layer.__anit__ replays from
AppliedOrNone(offs) == IF APPLIED \in DOMAIN offs THEN offs[APPLIED] ELSE -1

\* Layer.__anit__: the entries after the applied offset are applied again
AnitReplay(st, now) ==
    LET appliedoffs == AppliedOrNone(st.offsets)
        tail == SubSeq(st.seqn, appliedoffs + 2, Len(st.seqn))
    IN  IF st.seqn # <<>> /\ Len(st.seqn) - 1 > appliedoffs
        THEN ReplayEdits(st, tail, now)
        ELSE st

\* the process stops between nodeeditlog.add and offsets.set of a call; what
\* the slabs hold stays, the tasks and the windows are gone
Crash ==
    /\ up
    /\ \E c \in Calls : calls[c].pc = "logged"
    /\ up' = FALSE
    /\ calls' = [c \in Calls |-> IdleCall]
    /\ nexslock' = 0
    /\ windows' = [w \in {} |-> <<>>]
    /\ UNCHANGED <<layr, nodeeditlog, offsets, clock, hist, ncalls, nedits, foll,
                   abrv, waits, lift, slabseqn>>

\* the slabs hold st when the constructor is done
Slabs(st) == layr' = st.layr /\ nodeeditlog' = st.seqn /\ offsets' = st.offsets

\* the layer is constructed again
Restart ==
    /\ ~up
    /\ Slabs(AnitReplay([layr |-> layr, seqn |-> nodeeditlog, offsets |-> offsets], clock))
    /\ up' = TRUE
    /\ abrv' = AbrvAnit(abrv)
    /\ waits' = NoWaits
    /\ UNCHANGED <<windows, calls, nexslock, clock, hist, ncalls, nedits, foll, lift, slabseqn>>

\* ------------------------------------------------------- upstream follower
\* byte order of the names the inputs use
NameOrder == <<"", ".created", "n", "p", "risk", "t1", "t2">>
NameRank(name) == CHOOSE i \in DOMAIN NameOrder : NameOrder[i] = name

\* lkey order of two bybuid keys: buid, flag byte, name, ':' + prop
KeyRank(k) == <<k[1], k[2], NameRank(k[3]), NameRank(k[4])>>
RankLess(x, y) == \E i \in 1..4 : x[i] < y[i] /\ \A j \in 1..(i - 1) : x[j] = y[j]
KeyLess(a, b) == RankLess(KeyRank(a), KeyRank(b))

\* the least key of S in lkey order
LeastKey(S) == IF S = {} THEN <<>> ELSE CHOOSE k \in S : \A j \in S \ {k} : KeyLess(k, j)

\* scanByFull(db=self.bybuid) resumed: the first row after cursor, <<>> when
\* the scan is over
NextKey(db, cursor) ==
    LeastKey({k \in DOMAIN db : cursor = <<>> \/ KeyLess(cursor, k)})

\* iterNodeData(buid) turned into EDIT_NODEDATA_SET edits with oldv None
IterNodeData(L, buid) ==
    LET names == SelectSeq(NameOrder, LAMBDA nm : DataKey(buid, nm) \in DOMAIN L.nodedata)
    IN  [i \in DOMAIN names |->
            NodeDataSet(names[i], MsgpackUn(L.nodedata[DataKey(buid, names[i])]), NoneV)]

\* nodeedits[2].append(edit) for every node data row of nodeedits[0]
WithNodeData(L, cur) == [cur EXCEPT !.edits = @ \o IterNodeData(L, cur.buid)]

\* the body of the scan loop below the yield, for row k: a form row starts a
\* new node-edit, another row joins the current one when the buid is the same
\* and is passed over otherwise
RowEdit(L, cur, k) ==
    LET row == L.bybuid[k]
    IN  IF k[2] = 0 THEN NodeEdit(k[1], row[1], <<NodeAdd(row[2], row[3])>>)
        ELSE IF cur.buid # k[1] THEN cur
        ELSE IF k[2] = 1
             THEN [cur EXCEPT !.edits = Append(@, PropSet(k[3], MsgpackUnRow(row).valu, NoneV,
                                                           MsgpackUnRow(row).stortype))]
        ELSE IF k[2] = 2
             THEN [cur EXCEPT !.edits = Append(@, TagSet(k[3], MsgpackUn(row), NoneV))]
        ELSE [cur EXCEPT !.edits = Append(@, TagPropSet(k[3], k[4], MsgpackUnRow(row).valu,
                                                         NoneV, MsgpackUnRow(row).stortype))]

\* "yield nodeedits": the generator stops with cur handed out
GenYield(gen, cur, resumed, done) ==
    [item |-> cur, end |-> FALSE,
     gen |-> [cursor |-> gen.cursor, cur |-> cur, resumed |-> resumed, done |-> done]]

\* the generator is exhausted
GenEnd(gen) == [item |-> gen.cur, end |-> TRUE, gen |-> gen]

\* iterLayerNodeEdits run from one suspension to the next, over the rows the
\* layer holds now
RECURSIVE iterLayerNodeEdits(_, _, _)
iterLayerNodeEdits(L, gen, k) ==
    IF gen.done THEN GenEnd(gen)
    ELSE IF k = <<>>
         THEN IF gen.cur.buid # 0
              THEN GenYield(gen, WithNodeData(L, gen.cur), FALSE, TRUE)
              ELSE GenEnd(gen)
    ELSE IF k[1] # gen.cur.buid /\ gen.cur.buid # 0 /\ ~gen.resumed
         THEN GenYield(gen, WithNodeData(L, gen.cur), TRUE, FALSE)
    ELSE iterLayerNodeEdits(L,
             [cursor |-> k, cur |-> RowEdit(L, gen.cur, k), resumed |-> FALSE,
              done |-> FALSE],
             NextKey(L.bybuid, k))

\* the None that consume puts on the queue when the peer's stream is over
QNone == <<>>

\* the iden of the upstream layer, and the window its syncNodeEdits registers
UpIden == "upstream"
UpWindow == 2

\* self.offsets.get(iden): 0 for a name never set
UpOffs(offs) == IF UpIden \in DOMAIN offs THEN offs[UpIden] ELSE 0

\* the follower's slabs as a run state, and back
FollSt(f) == [layr |-> f.layr, seqn |-> f.seqn, offsets |-> f.offsets]
FollPut(f, st) == [f EXCEPT !.layr = st.layr, !.seqn = st.seqn, !.offsets = st.offsets]

\* [e.set() for e in wait] for the bootstrap's waits: every listed event whose
\* key is <= offs
WakeUpTo(evnts, offs) ==
    [i \in DOMAIN evnts |->
        IF evnts[i].listed /\ evnts[i].offs <= offs THEN [evnts[i] EXCEPT !.set = TRUE]
        ELSE evnts[i]]

\* WakePop that pops the waits and sets none of them
WakePopUnset(evnts, offs) ==
    [i \in DOMAIN evnts |->
        IF evnts[i].listed /\ evnts[i].offs = offs THEN [evnts[i] EXCEPT !.listed = FALSE]
        ELSE evnts[i]]

\* self.upstreamwaits[iden].pop(offs, None) and the set() of what it held
WakePop(evnts, offs) ==
    [i \in DOMAIN evnts |->
        IF evnts[i].listed /\ evnts[i].offs = offs
        THEN [evnts[i] EXCEPT !.set = TRUE, !.listed = FALSE]
        ELSE evnts[i]]

\* _initUpstreamSync: the proxy is open, iden and offs are read; offs == 0
\* sends the task to the bootstrap (offs = await proxy.getNodeEditOffset())
UpConnect ==
    /\ up /\ foll.up
    /\ foll.pc = "idle"
    /\ ~foll.isfini
    /\ foll' = IF UpOffs(foll.offsets) = 0
               THEN [foll EXCEPT !.pc = "boot",
                                 !.bootoffs = getNodeEditOffset(nodeeditlog),
                                 !.gen = GenInit,
                                 !.bootcalls = IF /\ \A c \in Calls : calls[c].pc = "idle"
                                                  /\ foll.layr = EmptyLayer
                                               THEN ncalls ELSE -1]
               ELSE [foll EXCEPT !.pc = "loop", !.bootcalls = -1]
    /\ UNCHANGED <<layr, nodeeditlog, offsets, windows, calls, nexslock, clock, up, hist,
                   ncalls, nedits,
                   abrv, waits, lift, slabseqn>>

\* the generator is exhausted: self.offsets.set(iden, offs) and the waits
\* with k <= offs are set
BootEnd(f) ==
    [f EXCEPT !.pc = "loop",
              !.offsets = OffsetsSet(f.offsets, UpIden, f.bootoffs),
              !.evnts = WakeUpTo(f.evnts, f.bootoffs)]

\* await self.storNodeEditsNoLift([item], {}) for the item r hands out
BootItem(f, r, now) ==
    [FollPut(f, StorNodeEditsRun(FollSt(f), <<r.item>>, EmptyMeta, now)) EXCEPT !.gen = r.gen]

\* async for item in proxy.iterLayerNodeEdits(): one turn of the loop
BootTurn(f, r, now) == IF r.end THEN BootEnd(f) ELSE BootItem(f, r, now)

BootStep ==
    /\ up /\ foll.up
    /\ foll.pc = "boot"
    /\ foll' = BootTurn(foll, iterLayerNodeEdits(layr, foll.gen,
                                                 NextKey(layr.bybuid, foll.gen.cursor)), clock)
    /\ UNCHANGED <<layr, nodeeditlog, offsets, windows, calls, nexslock, clock, up, hist,
                   ncalls, nedits,
                   abrv, waits, lift, slabseqn>>

\* while not proxy.isfini: offs = self.offsets.get(iden); a new queue;
\* proxy.schedCoro(consume(offs))
FollowStart ==
    /\ up /\ foll.up
    /\ foll.pc = "loop"
    /\ foll' = [foll EXCEPT !.pc = "follow", !.sync = "log",
                            !.next = UpOffs(foll.offsets), !.q = <<>>]
    /\ UNCHANGED <<layr, nodeeditlog, offsets, windows, calls, nexslock, clock, up, hist,
                   ncalls, nedits,
                   abrv, waits, lift, slabseqn>>

\* SyncLog that leaves the log one entry before its end
SyncLogShort ==
    /\ up /\ foll.up
    /\ foll.pc = "follow" /\ foll.sync = "log"
    /\ IF foll.next + 1 < Len(nodeeditlog)
       THEN /\ foll' = [foll EXCEPT !.q = Append(@, <<foll.next, nodeeditlog[foll.next + 1].changes>>),
                                    !.next = @ + 1]
            /\ UNCHANGED windows
       ELSE /\ foll' = [foll EXCEPT !.sync = "wind"]
            /\ windows' = [x \in DOMAIN windows \cup {UpWindow} |->
                              IF x = UpWindow THEN <<>> ELSE windows[x]]
    /\ UNCHANGED <<layr, nodeeditlog, offsets, calls, nexslock, clock, up, hist,
                   ncalls, nedits,
                   abrv, waits, lift, slabseqn>>

\* syncNodeEdits(offs) on the upstream, first loop: the next logged entry is
\* yielded as (offs, splice[0]) and consume puts it on the queue; at the end
\* of the log the window is registered
SyncLog ==
    /\ up /\ foll.up
    /\ foll.pc = "follow" /\ foll.sync = "log"
    /\ IF foll.next < Len(nodeeditlog)
       THEN /\ foll' = [foll EXCEPT !.q = Append(@, <<foll.next, nodeeditlog[foll.next + 1].changes>>),
                                    !.next = @ + 1]
            /\ UNCHANGED windows
       ELSE /\ foll' = [foll EXCEPT !.sync = "wind"]
            /\ windows' = [x \in DOMAIN windows \cup {UpWindow} |->
                              IF x = UpWindow THEN <<>> ELSE windows[x]]
    /\ UNCHANGED <<layr, nodeeditlog, offsets, calls, nexslock, clock, up, hist,
                   ncalls, nedits,
                   abrv, waits, lift, slabseqn>>

\* syncNodeEdits(offs), second loop: the window's next item is yielded and
\* consume puts it on the queue
SyncWind ==
    /\ up /\ foll.up
    /\ foll.pc = "follow" /\ foll.sync = "wind"
    /\ UpWindow \in DOMAIN windows
    /\ windows[UpWindow] # <<>>
    /\ foll' = [foll EXCEPT !.q = Append(@, Head(windows[UpWindow]))]
    /\ windows' = [windows EXCEPT ![UpWindow] = Tail(@)]
    /\ UNCHANGED <<layr, nodeeditlog, offsets, calls, nexslock, clock, up, hist,
                   ncalls, nedits,
                   abrv, waits, lift, slabseqn>>

\* FollowItem that sets offsets[iden] and the waits without applying the item
FollowItemNoStore(f, item, now) ==
    [f EXCEPT !.offsets = OffsetsSet(@, UpIden, item[1] + 1),
              !.q = Tail(f.q), !.evnts = WakePop(f.evnts, item[1] + 1)]

\* for nodeeditoffs, item in items: storNodeEditsNoLift(item, {}),
\* self.offsets.set(iden, nodeeditoffs + 1), the waits at that key popped and
\* set
FollowItem(f, item, now) ==
    [FollPut(f, [StorNodeEditsRun(FollSt(f), item[2], EmptyMeta, now) EXCEPT
                    !.offsets = OffsetsSet(@, UpIden, item[1] + 1)])
        EXCEPT !.q = Tail(f.q), !.evnts = WakePop(f.evnts, item[1] + 1)]

FollowApply ==
    /\ foll.up
    /\ foll.pc = "follow"
    /\ foll.q # <<>>
    /\ Head(foll.q) # QNone
    /\ foll' = FollowItem(foll, Head(foll.q), clock)
    /\ UNCHANGED <<layr, nodeeditlog, offsets, windows, calls, nexslock, clock, up, hist,
                   ncalls, nedits,
                   abrv, waits, lift, slabseqn>>

\* Layer.waitUpstreamOffs(iden, offs): the event is set at once when the
\* stored offset is >= offs, and listed under offs otherwise (at: the stored
\* offset at the call, kept for the record)
waitUpstreamOffs(offs) ==
    /\ foll.up
    /\ Len(foll.evnts) < MaxWaits
    /\ foll' = [foll EXCEPT !.evnts = Append(@,
                    IF UpOffs(foll.offsets) >= offs
                    THEN [offs |-> offs, set |-> TRUE, listed |-> FALSE,
                          at |-> UpOffs(foll.offsets)]
                    ELSE [offs |-> offs, set |-> FALSE, listed |-> TRUE,
                          at |-> UpOffs(foll.offsets)])]
    /\ UNCHANGED <<layr, nodeeditlog, offsets, windows, calls, nexslock, clock, up, hist,
                   ncalls, nedits,
                   abrv, waits, lift, slabseqn>>

\* the follower's process stops: its slabs stay, its task, queue and events
\* are gone, and the upstream's generator and window end with the link
FollDown ==
    /\ foll.up
    /\ foll.downs < MaxDowns
    /\ foll' = [foll EXCEPT !.up = FALSE, !.pc = "idle", !.sync = "none", !.q = <<>>,
                            !.evnts = <<>>, !.gen = GenInit, !.next = 0, !.bootoffs = 0,
                            !.bootcalls = -1, !.downs = @ + 1]
    /\ windows' = [x \in DOMAIN windows \ {UpWindow} |-> windows[x]]
    /\ UNCHANGED <<layr, nodeeditlog, offsets, calls, nexslock, clock, up, hist,
                   ncalls, nedits,
                   abrv, waits, lift, slabseqn>>

\* the follower is constructed again (Layer.__anit__) and its upstream task
\* scheduled
FollUp ==
    /\ ~foll.up
    /\ foll' = [FollPut(foll, AnitReplay(FollSt(foll), clock)) EXCEPT !.up = TRUE]
    /\ UNCHANGED <<layr, nodeeditlog, offsets, windows, calls, nexslock, clock, up, hist,
                   ncalls, nedits,
                   abrv, waits, lift, slabseqn>>

\* ------------------------------------------------------------------- inputs
Single(buid, edit) == <<NodeEdit(buid, FormOf(buid), <<edit>>)>>

NodeEditsOf(b) == {NodeAdd(NdefValu(b), NdefType(b)), NodeDel(NdefValu(b), NdefType(b))}

\* property edits: a scalar, two arrays, a universal prop
PropEditSet ==
    {PropSet("p", <<1>>, NoneV, STOR_TYPE_I8),
     PropSet("p", <<1, 2>>, NoneV, ArrayI8),
     PropSet("p", <<2>>, NoneV, ArrayI8),
     PropDel("p", NoneV, STOR_TYPE_I8),
     PropSet(".created", <<1>>, NoneV, STOR_TYPE_TIME),
     PropDel(".created", NoneV, STOR_TYPE_TIME)}

PropBatches ==
    UNION {{Single(b, e) : e \in NodeEditsOf(b)} : b \in Buids} \cup
    {Single(1, e) : e \in PropEditSet}

\* the steps every specification shares
CallSteps(c) == NexusRun(c) \/ StorNodeEditStep(c) \/ LogAdd(c) \/ SetApplied(c)

NextProp ==
    \/ \E ne \in PropBatches : storNodeEdits(1, ne, EmptyMeta)
    \/ \E ne \in PropBatches : storNodeEditsNoLift(1, ne, EmptyMeta)
    \/ CallSteps(1)
    \/ Tick

SpecProp == Init /\ [][NextProp]_vars

\* tag and tag-property edits: two tags carrying the same property name
TagEditSet ==
    {TagPropSet(t, "risk", v, NoneV, STOR_TYPE_I8) : t \in {"t1", "t2"}, v \in {<<1>>, <<2>>}}
    \cup {TagPropDel(t, "risk", NoneV, STOR_TYPE_I8) : t \in {"t1", "t2"}}
    \cup {TagSet("t1", <<1, 2>>, NoneV), TagDel("t1", NoneV)}

TagBatches == {Single(1, e) : e \in TagEditSet}

NextTag ==
    \/ \E ne \in TagBatches : storNodeEdits(1, ne, EmptyMeta)
    \/ \E ne \in TagBatches : storNodeEditsNoLift(1, ne, EmptyMeta)
    \/ CallSteps(1)
    \/ Tick

SpecTag == Init /\ [][NextTag]_vars

\* one edit of each *_SET kind, and a second value for each
SetEditSet ==
    {PropSet("p", <<1>>, NoneV, STOR_TYPE_I8), PropSet("p", <<1, 2>>, NoneV, ArrayI8),
     TagSet("t1", <<1, 2>>, NoneV), TagSet("t1", <<2, 3>>, NoneV),
     TagPropSet("t1", "risk", <<1>>, NoneV, STOR_TYPE_I8),
     TagPropSet("t1", "risk", <<2>>, NoneV, STOR_TYPE_I8),
     NodeDataSet("n", <<1>>, NoneV), NodeDataSet("n", <<2>>, NoneV)}

SetBatches == {Single(1, e) : e \in SetEditSet}

NextSet ==
    \/ \E ne \in SetBatches : storNodeEdits(1, ne, EmptyMeta)
    \/ \E ne \in SetBatches : storNodeEditsNoLift(1, ne, EmptyMeta)
    \/ CallSteps(1)
    \/ Tick

SpecSet == Init /\ [][NextSet]_vars

\* ------------------------------------------------------------- rows of a layer
HasRow(L, key) == key \in DOMAIN L.bybuid
PropRow(L, buid, prop) == MsgpackUnRow(L.bybuid[PropKey(buid, prop)])
TagPropRow(L, buid, tag, prop) == MsgpackUnRow(L.bybuid[TagPropKey(buid, tag, prop)])

\* the index bytes a stored (valu, stortype) has in byprop and in byarray
ByPropIndx(valu, stortype) ==
    IF IsArray(stortype) THEN Range(getStorIndx(STOR_TYPE_MSGP, valu))
    ELSE Range(getStorIndx(stortype, valu))
ByArrayIndx(valu, stortype) ==
    IF IsArray(stortype) THEN Range(getStorIndx(stortype, valu)) ELSE {}

\* the abbreviation keys under which a property of buid belongs
WantPropAbrvs(buid, prop) ==
    {<<FormOf(buid), prop>>} \cup (IF prop \in UnivProps THEN {<<None, prop>>} ELSE {})

\* a byprop / byarray row (abrv, indx, buid) has its bybuid row
PropIndexBacked(L, row, array) ==
    LET form == row[1][1]
        prop == row[1][2]
        buid == row[3]
    IN  IF prop = None
        THEN /\ HasRow(L, FormKey(buid))
             /\ L.bybuid[FormKey(buid)][1] = form
             /\ row[2] \in (IF array
                            THEN ByArrayIndx(L.bybuid[FormKey(buid)][2], L.bybuid[FormKey(buid)][3])
                            ELSE ByPropIndx(L.bybuid[FormKey(buid)][2], L.bybuid[FormKey(buid)][3]))
        ELSE /\ HasRow(L, PropKey(buid, prop))
             /\ row[1] \in WantPropAbrvs(buid, prop)
             /\ row[2] \in (IF array
                            THEN ByArrayIndx(PropRow(L, buid, prop).valu, PropRow(L, buid, prop).stortype)
                            ELSE ByPropIndx(PropRow(L, buid, prop).valu, PropRow(L, buid, prop).stortype))

\* a bytag row (tagabrv, formabrv, buid) has its tag row
TagIndexBacked(L, row) ==
    /\ HasRow(L, TagKey(row[3], row[1][1]))
    /\ row[2] = <<FormOf(row[3]), None>>

\* a bytagprop row ((form, tag, prop), indx, buid) has a tag-property row
\* of that buid and prop, under a tag the abbreviation admits, with that index
TagPropIndexBacked(L, row) ==
    \E k \in DOMAIN L.bybuid :
        /\ k[1] = row[3] /\ k[2] = 3 /\ k[4] = row[1][3]
        /\ row[1][2] \in {None, k[3]}
        /\ row[1][1] \in {None, FormOf(row[3])}
        /\ row[2] \in Range(getStorIndx(MsgpackUnRow(L.bybuid[k]).stortype,
                                        MsgpackUnRow(L.bybuid[k]).valu))

PrimaryAuthority(L) ==
    /\ \A row \in L.byprop : PropIndexBacked(L, row, FALSE)
    /\ \A row \in L.byarray : PropIndexBacked(L, row, TRUE)
    /\ \A row \in L.bytag : TagIndexBacked(L, row)
    /\ \A row \in L.bytagprop : TagPropIndexBacked(L, row)

\* C1 (I1, primary authority): every row of byprop, byarray, bytag and
\* bytagprop has a bybuid row of the same buid whose current value encodes
\* to the index key; after PROP_DEL of an array property no row remains.
C1_PrimaryAuthority == PrimaryAuthority(layr)

\* C2 (P4, tag-property triple): every tag-property row present in bybuid
\* has its bytagprop rows under (None, None, prop), (None, tag, prop) and
\* (form, tag, prop).
C2_TagPropTriple ==
    \A k \in DOMAIN layr.bybuid :
        k[2] = 3 =>
            \A a \in {<<None, None, k[4]>>, <<None, k[3], k[4]>>, <<FormOf(k[1]), k[3], k[4]>>} :
                \A i \in Range(getStorIndx(MsgpackUnRow(layr.bybuid[k]).stortype,
                                           MsgpackUnRow(layr.bybuid[k]).valu)) :
                    <<a, i, k[1]>> \in layr.bytagprop

\* C3 (P2/I2/I3/I4, property completeness): every property row present in
\* bybuid has its index rows under (form, prop), and under (None, prop) for
\* a universal prop: byprop rows of indx(value) for a scalar; for an array
\* one byarray row per element and exactly one byprop row, the MSGP one.
C3_PropComplete ==
    \A k \in DOMAIN layr.bybuid :
        k[2] = 1 =>
            LET row == MsgpackUnRow(layr.bybuid[k])
            IN  \A a \in WantPropAbrvs(k[1], k[3]) :
                    /\ \A i \in ByPropIndx(row.valu, row.stortype) :
                           <<a, i, k[1]>> \in layr.byprop
                    /\ \A i \in ByArrayIndx(row.valu, row.stortype) :
                           <<a, i, k[1]>> \in layr.byarray
                    /\ IsArray(row.stortype) =>
                           {r \in layr.byprop : r[1] = a /\ r[3] = k[1]}
                               = {<<a, MsgpIndx(row.valu), k[1]>>}

\* an applied edit of the log satisfying P(edit)
Logged(P(_)) ==
    \E n \in DOMAIN nodeeditlog : \E i \in DOMAIN nodeeditlog[n].changes :
        \E j \in DOMAIN nodeeditlog[n].changes[i].edits :
            P(nodeeditlog[n].changes[i].edits[j])

\* a scalar property was replaced by an array, which is stored and indexed
C3_Witness ==
    /\ LET ScalarToArray(e) == /\ e.kind = EDIT_PROP_SET /\ e.name = "p"
                               /\ IsArray(e.stortype) /\ e.oldv = <<1>>
       IN  Logged(ScalarToArray)
    /\ HasRow(layr, PropKey(1, "p"))
    /\ IsArray(PropRow(layr, 1, "p").stortype)
    /\ HasRow(layr, PropKey(1, ".created"))

\* C4 (I6/P5, form count): formcounts[f] is the number of form rows of form
\* f, and is never negative.
C4_FormCount ==
    \A f \in Forms :
        /\ layr.formcounts[f] =
               Cardinality({b \in Buids : /\ HasRow(layr, FormKey(b))
                                          /\ layr.bybuid[FormKey(b)][1] = f})
        /\ layr.formcounts[f] >= 0

\* three calls have returned: a NODE_ADD and a NODE_DEL were applied, one
\* call found nothing to do (an existing node added or an absent one deleted)
C4_Witness ==
    /\ LET IsAdd(e) == e.kind = EDIT_NODE_ADD IN Logged(IsAdd)
    /\ LET IsDel(e) == e.kind = EDIT_NODE_DEL IN Logged(IsDel)
    /\ Len(nodeeditlog) = 3
    /\ \E n \in DOMAIN nodeeditlog : nodeeditlog[n].changes[1].edits = <<>>
    /\ \A c \in Calls : calls[c].pc = "idle"

\* the requested edit / the applied edit of a batch of one node-edit, one edit
SameSet(e, f) ==
    /\ e.kind = f.kind /\ e.name = f.name /\ e.tag = f.tag
    /\ e.valu = f.valu /\ e.stortype = f.stortype

\* call c is about to apply, as its whole batch, the *_SET edit that the last
\* log entry records as applied to the same buid
SecondSet(c) ==
    /\ calls[c].pc = "edits" /\ calls[c].idx = 0
    /\ Len(calls[c].nodeedits) = 1 /\ Len(calls[c].nodeedits[1].edits) = 1
    /\ calls[c].nodeedits[1].edits[1].kind \in
           {EDIT_PROP_SET, EDIT_TAG_SET, EDIT_TAGPROP_SET, EDIT_NODEDATA_SET}
    /\ nodeeditlog # <<>>
    /\ LET last == nodeeditlog[Len(nodeeditlog)].changes
       IN  /\ Len(last) = 1 /\ Len(last[1].edits) = 1
           /\ last[1].buid = calls[c].nodeedits[1].buid
           /\ SameSet(last[1].edits[1], calls[c].nodeedits[1].edits[1])

\* C5 (P7, idempotence of SET): applying the same *_SET edit a second time
\* right after the first changes no database and yields no applied edit.
C5_IdempotentSet ==
    \A c \in Calls :
        SecondSet(c) =>
            LET r == _storNodeEdit(layr, calls[c].nodeedits[1], clock)
            IN  r.layr = layr /\ r.items = <<>>

\* ------------------------------------------------------ concurrent writers
\* two callers, batches of one or two node-edits on one node, a live window
ConcEdits ==
    {PropSet("p", <<1>>, NoneV, STOR_TYPE_I8), PropSet("p", <<2>>, NoneV, STOR_TYPE_I8)}

ConcNodeEdits == {NodeEdit(1, FormOf(1), <<e>>) : e \in ConcEdits}

ConcBatches ==
    {<<a>> : a \in ConcNodeEdits} \cup {<<a, b>> : a \in ConcNodeEdits, b \in ConcNodeEdits}

NextConc ==
    \/ \E c \in Calls, ne \in ConcBatches : storNodeEdits(c, ne, EmptyMeta)
    \/ \E c \in Calls, ne \in ConcBatches : storNodeEditsNoLift(c, ne, EmptyMeta)
    \/ \E c \in Calls : CallSteps(c)
    \/ Tick
    \/ \E w \in Windows : getNodeEditWindow(w)
    \/ \E w \in Windows : WindowGet(w)
    \/ \E w \in Windows : WindowFini(w)

SpecConc == Init /\ [][NextConc]_vars

\* ------------------------------------------------- the layer, all edit kinds
\* one caller, every edit kind, batches of several edits and of several
\* node-edits, and the process stopping and starting again
MixedEdits ==
    {NodeAdd(NdefValu(1), NdefType(1)), NodeDel(NdefValu(1), NdefType(1)),
     PropSet("p", <<1>>, NoneV, STOR_TYPE_I8), PropDel("p", NoneV, STOR_TYPE_I8),
     TagSet("t1", <<1, 2>>, NoneV), TagDel("t1", NoneV),
     TagPropSet("t1", "risk", <<1>>, NoneV, STOR_TYPE_I8),
     TagPropDel("t1", "risk", NoneV, STOR_TYPE_I8),
     NodeDataSet("n", <<1>>, NoneV), NodeDataDel("n", NoneV)}

MixedBatches ==
    {Single(1, e) : e \in MixedEdits} \cup
    {Single(3, NodeAdd(NdefValu(3), NdefType(3))),
     <<NodeEdit(1, FormOf(1), <<PropSet("p", <<1>>, NoneV, STOR_TYPE_I8),
                                PropSet("p", <<2>>, NoneV, STOR_TYPE_I8)>>)>>,
     <<NodeEdit(1, FormOf(1), <<PropSet("p", <<2>>, NoneV, STOR_TYPE_I8),
                                PropDel("p", NoneV, STOR_TYPE_I8)>>)>>,
     <<NodeEdit(1, FormOf(1), <<NodeDataSet("n", <<1>>, NoneV),
                                NodeDel(NdefValu(1), NdefType(1))>>)>>,
     <<NodeEdit(2, FormOf(2), <<NodeAdd(NdefValu(2), NdefType(2))>>),
       NodeEdit(1, FormOf(1), <<PropSet("p", <<2>>, NoneV, STOR_TYPE_I8)>>)>>,
     <<NodeEdit(1, FormOf(1), <<PropSet("p", <<2>>, NoneV, STOR_TYPE_I8)>>),
       NodeEdit(1, FormOf(1), <<PropSet("p", <<1>>, NoneV, STOR_TYPE_I8)>>)>>}

Next ==
    \/ \E ne \in MixedBatches : storNodeEdits(1, ne, EmptyMeta)
    \/ \E ne \in MixedBatches : storNodeEditsNoLift(1, ne, EmptyMeta)
    \/ CallSteps(1)
    \/ Tick
    \/ Crash
    \/ Restart

Spec == Init /\ [][Next]_vars

\* a consumer of syncNodeEdits(0) applying every logged change batch, in
\* offset order, to layer L
ReplayInto(L, log, now) ==
    ReplayEdits([layr |-> L, seqn |-> <<>>, offsets |-> [k \in {} |-> 0]], log, now).layr

EditPos(changes) ==
    {x \in (1..MaxEdits) \X (1..MaxEdits + 1) :
         x[1] \in DOMAIN changes /\ x[2] \in DOMAIN changes[x[1]].edits}
PosBefore(x, y) == x[1] < y[1] \/ (x[1] = y[1] /\ x[2] < y[2])

\* applied edit a is what the requested edit r gives when it has an effect
Applies(a, r) ==
    /\ a.kind = r.kind /\ a.name = r.name /\ a.tag = r.tag
    /\ r.kind \in {EDIT_NODE_ADD, EDIT_PROP_SET, EDIT_TAG_SET, EDIT_TAGPROP_SET,
                   EDIT_NODEDATA_SET}
           => a.valu = r.valu /\ a.stortype = r.stortype

\* the applied edits app are those of the requested edits req, in the order
\* of req: each requested edit gives nothing or its applied edit (NODE_ADD:
\* followed by the PROP_SET of .created)
RECURSIVE InOrderOf(_, _)
InOrderOf(app, req) ==
    IF req = <<>> THEN app = <<>>
    ELSE \/ InOrderOf(app, Tail(req))
         \/ /\ app # <<>>
            /\ Applies(Head(app), Head(req))
            /\ IF Head(req).kind = EDIT_NODE_ADD
               THEN /\ Len(app) >= 2
                    /\ app[2].kind = EDIT_PROP_SET /\ app[2].name = ".created"
                    /\ InOrderOf(SubSeq(app, 3, Len(app)), Tail(req))
               ELSE InOrderOf(Tail(app), Tail(req))

\* an applied PROP_SET / PROP_DEL of property "p" of buid 1
OnP(changes, x) ==
    /\ changes[x[1]].buid = 1
    /\ changes[x[1]].edits[x[2]].kind \in {EDIT_PROP_SET, EDIT_PROP_DEL}
    /\ changes[x[1]].edits[x[2]].name = "p"

\* C7 (order within one call): the log entry of a call has one item per
\* node-edit of the call, in the caller's order and with its buid and form;
\* the applied edits of each item follow the order of the requested edits;
\* an applied edit of a property records as old value what the applied edit
\* before it on that property left; and the layer holds what the last one
\* left.
C7_OrderWithinCall ==
    \A c \in Calls :
        calls[c].pc = "logged" =>
            LET req == calls[c].nodeedits
                got == nodeeditlog[calls[c].offs + 1].changes
                at(x) == got[x[1]].edits[x[2]]
                ps == {x \in EditPos(got) : OnP(got, x)}
            IN  /\ Len(got) = Len(req)
                /\ \A i \in DOMAIN req :
                       /\ got[i].buid = req[i].buid /\ got[i].form = req[i].form
                       /\ InOrderOf(got[i].edits, req[i].edits)
                /\ \A x, y \in ps :
                       (PosBefore(x, y) /\ ~ \E z \in ps : PosBefore(x, z) /\ PosBefore(z, y))
                           => IF at(y).kind = EDIT_PROP_SET
                              THEN at(y).oldv = (IF at(x).kind = EDIT_PROP_SET
                                                 THEN at(x).valu ELSE NoneV)
                              ELSE at(x).kind = EDIT_PROP_SET /\ at(y).valu = at(x).valu
                /\ \A y \in ps :
                       (~ \E z \in ps : PosBefore(y, z))
                           => IF at(y).kind = EDIT_PROP_SET
                              THEN /\ HasRow(layr, PropKey(1, "p"))
                                   /\ PropRow(layr, 1, "p").valu = at(y).valu
                              ELSE ~HasRow(layr, PropKey(1, "p"))

\* a call whose node-edit sets p to 1 and then to 2 has appended both applied
\* edits, the second with old value 1
C7_Witness ==
    /\ calls[1].pc = "logged"
    /\ Len(calls[1].nodeedits) = 1 /\ Len(calls[1].nodeedits[1].edits) = 2
    /\ LET got == nodeeditlog[calls[1].offs + 1].changes[1].edits
       IN  /\ Len(got) = 2
           /\ got[1].kind = EDIT_PROP_SET /\ got[1].valu = <<1>>
           /\ got[2].kind = EDIT_PROP_SET /\ got[2].valu = <<2>> /\ got[2].oldv = <<1>>

\* C8 (I5, log consistency): whenever no call is in progress, the offset
\* stored as nodeedit:applied is the offset of the last entry of the log,
\* getNodeEditOffset() - 1 (nothing stored while the log is empty).
C8_AppliedIsLast ==
    (up /\ \A c \in Calls : calls[c].pc \in {"idle", "wait"})
        => AppliedOrNone(offsets) = getNodeEditOffset(nodeeditlog) - 1

\* three calls have returned, a later-issued one logged before an
\* earlier-issued one, with a window registered that holds their items
C8_Witness ==
    /\ \A c \in Calls : calls[c].pc = "idle"
    /\ Len(nodeeditlog) = 3
    /\ \E i, j \in DOMAIN hist :
           i < j /\ hist[i].offs >= 0 /\ hist[j].offs >= 0 /\ hist[i].inv > hist[j].inv
    /\ 1 \in DOMAIN windows /\ Len(windows[1]) >= 2

\* C9 (crash replay): the layer the restart leaves, after re-applying the
\* log tail, has the bybuid rows, index rows, nodedata and formcounts it had
\* before the crash.
C9_CrashReplay == [][(~up /\ up') => layr' = layr]_vars

\* C10 (log replay reproduces state): every logged change batch applied in
\* offset order to an empty layer gives, for every buid, the storage node
\* (ndef, props, tags, tagprops) of the layer that logged them, whenever
\* the replay runs.
C10_LogReplay ==
    NexusFree(nexslock) =>
        \A now \in 1..MaxTime :
            LET B == ReplayInto(EmptyLayer, nodeeditlog, now)
            IN  \A b \in Buids : getStorNode(B, b) = getStorNode(layr, b)

\* three batches logged: a node added at time 1 that carries a tag, seen at
\* time 2
C10_Witness ==
    /\ NexusFree(nexslock) /\ up
    /\ Len(nodeeditlog) = 3
    /\ clock = 2
    /\ HasRow(layr, FormKey(1))
    /\ HasRow(layr, PropKey(1, ".created"))
    /\ PropRow(layr, 1, ".created").valu = <<1>>
    /\ HasRow(layr, TagKey(1, "t1"))

\* the items queued in a window are log entries, in strictly increasing
\* offset order
WindowInOrder(q, log) ==
    /\ \A i \in DOMAIN q :
           /\ q[i][1] + 1 \in DOMAIN log
           /\ q[i][2] = log[q[i][1] + 1].changes
    /\ \A i, j \in DOMAIN q : i < j => q[i][1] < q[j][1]

UpBatches ==
    {Single(1, NodeAdd(NdefValu(1), NdefType(1))),
     Single(1, NodeDel(NdefValu(1), NdefType(1))),
     Single(3, PropSet("p", <<1>>, NoneV, STOR_TYPE_I8))}

FollSteps ==
    \/ UpConnect
    \/ BootStep
    \/ FollowStart
    \/ SyncLog
    \/ SyncWind
    \/ FollowApply
    \/ FollUp

NextUp ==
    \/ \E ne \in UpBatches : storNodeEdits(1, ne, EmptyMeta)
    \/ CallSteps(1)
    \/ FollSteps
    \/ \E offs \in 1..MaxCalls : waitUpstreamOffs(offs)
    \/ FollDown

SpecUp == Init /\ [][NextUp]_vars

\* C12 (upstream bootstrap equality): when an empty follower has drained
\* iterLayerNodeEdits() of an upstream that stayed idle meanwhile, the
\* follower's bybuid database equals the upstream's.
C12_BootstrapEqual ==
    (foll.pc = "loop" /\ foll.bootcalls = ncalls) => foll.layr.bybuid = layr.bybuid

BootStepEnabled == up /\ foll.up /\ foll.pc = "boot"
FollowApplyEnabled == foll.up /\ foll.pc = "follow" /\ foll.q # <<>>
CallStepsEnabled(c) ==
    up /\ (calls[c].pc \in {"edits", "logged"} \/ (calls[c].pc = "wait" /\ NexusFree(nexslock)))

\* the asyncio loop runs every task that can run: the upstream task, the
\* consume task and the upstream's generators take their next step, a
\* stopped follower is started again, and a call that was issued is served.
\* The last three conjuncts are weak fairness of BootStep, FollowApply and
\* CallSteps(1), written out with their enabling conditions.
FairUp ==
    /\ WF_vars(UpConnect)
    /\ WF_vars(FollowStart)
    /\ WF_vars(SyncLog)
    /\ WF_vars(SyncWind)
    /\ WF_vars(FollUp)
    /\ ([]<>(~BootStepEnabled) \/ []<><<BootStep>>_vars)
    /\ ([]<>(~FollowApplyEnabled) \/ []<><<FollowApply>>_vars)
    /\ ([]<>(~CallStepsEnabled(1)) \/ []<><<CallSteps(1)>>_vars)

\* the follower and its upstream under that scheduling: a node is made and
\* deleted on the upstream, and the waiters ask for the offset the upstream's
\* log has reached, waitUpstreamOffs(iden, upstream.getNodeEditOffset())
UpFairBatches ==
    {Single(1, NodeAdd(NdefValu(1), NdefType(1))),
     Single(1, NodeDel(NdefValu(1), NdefType(1)))}

NextUpFair ==
    \/ \E ne \in UpFairBatches : storNodeEdits(1, ne, EmptyMeta)
    \/ CallSteps(1)
    \/ FollSteps
    \/ waitUpstreamOffs(getNodeEditOffset(nodeeditlog))
    \/ FollDown

SpecUpFair == Init /\ [][NextUpFair]_vars /\ FairUp

\* the upstream is idle and the follower has its offset at the end of the log
CaughtUp ==
    /\ \A c \in Calls : calls[c].pc = "idle"
    /\ foll.up
    /\ UpOffs(foll.offsets) = Len(nodeeditlog)

FailBatches ==
    {Single(1, NodeAdd(NdefValu(1), NdefType(1))),
     Single(1, PropSet("p", <<1>>, NoneV, STOR_TYPE_I8)),
     Single(1, PropSet("p", <<200>>, NoneV, STOR_TYPE_I8)),
     <<NodeEdit(1, FormOf(1), <<PropSet("p", <<2>>, NoneV, STOR_TYPE_I8),
                                PropSet("p", <<200>>, NoneV, STOR_TYPE_I8)>>)>>,
     <<NodeEdit(1, FormOf(1), <<NodeAdd(NdefValu(1), NdefType(1))>>),
       NodeEdit(1, FormOf(1), <<PropSet("p", <<200>>, NoneV, STOR_TYPE_I8)>>)>>,
     <<NodeEdit(1, FormOf(1), <<NodeDataSet("n", <<1>>, NoneV)>>),
       NodeEdit(3, FormOf(3), <<NodeAdd(NdefValu(3), NdefType(3))>>)>>}

NextFail ==
    \/ \E ne \in FailBatches : storNodeEdits(1, ne, EmptyMeta)
    \/ \E ne \in FailBatches : storNodeEditsNoLift(1, ne, EmptyMeta)
    \/ CallSteps(1)
    \/ StorNodeEditRaise(1)
    \/ CancelCall(1)
    \/ getNodeEditWindow(1)

SpecFail == Init /\ [][NextFail]_vars

\* the call of c ends in this step without having reached nodeeditlog.add
Aborts(c) == calls[c].pc = "edits" /\ calls'[c].pc = "idle"

AddsExisting(c) ==
    /\ calls[c].pc = "edits"
    /\ calls'[c].pc = "edits"
    /\ calls'[c].idx = calls[c].idx + 1
    /\ LET ne == calls[c].nodeedits[calls[c].idx + 1]
       IN  /\ Len(ne.edits) = 1
           /\ ne.edits[1].kind = EDIT_NODE_ADD
           /\ HasRow(layr, FormKey(ne.buid))

\* C16 (NODE_ADD on an existing node): the step changes no database row
\* (the node's .created included), no index row and no form count, and the
\* node-edit contributes no applied edit.
C16_NodeAddExisting ==
    [][\A c \in Calls :
          AddsExisting(c) =>
              /\ layr' = layr
              /\ calls'[c].changes[calls'[c].idx].edits = <<>>]_vars

\* a NODE_ADD of the node is logged with its edits, and a later one, applied
\* at another time, with none
C16_Witness ==
    /\ clock = 2
    /\ HasRow(layr, FormKey(1))
    /\ PropRow(layr, 1, ".created").valu = <<1>>
    /\ layr.formcounts["X"] = 1
    /\ \E i, j \in DOMAIN nodeeditlog :
          /\ i < j
          /\ nodeeditlog[i].changes = <<NodeEdit(1, "X",
                 <<NodeAdd(NdefValu(1), NdefType(1)),
                   PropSet(".created", <<1>>, NoneV, STOR_TYPE_TIME)>>)>>
          /\ nodeeditlog[j].changes = <<NodeEdit(1, "X", <<>>)>>
          /\ hist[Len(hist)].offs = j - 1

\* how many times buid b is in the sequence out
Times(out, b) == Cardinality({i \in DOMAIN out : out[i] = b})

\* C17 (lift by form): liftByProp(form, None) yields exactly the buids whose
\* form row exists with that form, each once: b after NODE_ADD of b, and
\* not b after NODE_DEL of b.
C17_LiftByForm ==
    \A f \in Forms : \A b \in Buids :
        Times(liftByProp(layr, f, None), b) =
            IF HasRow(layr, FormKey(b)) /\ layr.bybuid[FormKey(b)][1] = f THEN 1 ELSE 0

\* a node of form X was added and deleted, one of form Y added: the lift by
\* X yields nothing, the lift by Y the one node
C17_Witness ==
    /\ LET IsDel(e) == e.kind = EDIT_NODE_DEL IN Logged(IsDel)
    /\ Len(nodeeditlog) = 3
    /\ liftByProp(layr, "X", None) = <<>>
    /\ liftByProp(layr, "Y", None) = <<3>>
    /\ \A c \in Calls : calls[c].pc = "idle"

\* what the layer holds now, as the state a handler starts from
Here == [layr |-> layr, seqn |-> nodeeditlog, offsets |-> offsets, winds |-> windows]

\* the two runs leave the same databases, log, offsets and windows
SameEffects(a, b) ==
    /\ a.layr = b.layr
    /\ a.seqn = b.seqn
    /\ a.offsets = b.offsets
    /\ a.winds = b.winds

\* C18 (storNodeEditsNoLift): for the batch a handler is about to apply,
\* storNodeEditsNoLift leaves what storNodeEdits leaves (databases, log entry
\* and its offset, window items, applied offset) and returns nothing, where
\* storNodeEdits returns one storage node per node-edit.
C18_NoLiftEquiv ==
    \A c \in Calls :
        (calls[c].pc = "edits" /\ calls[c].idx = 0) =>
            /\ SameEffects(LiftRun(Here, calls[c].nodeedits, calls[c].meta, clock),
                           NoLiftRun(Here, calls[c].nodeedits, calls[c].meta, clock))
            /\ NoLiftRun(Here, calls[c].nodeedits, calls[c].meta, clock).retn = NoneV
            /\ Len(LiftRun(Here, calls[c].nodeedits, calls[c].meta, clock).retn)
                   = Len(calls[c].nodeedits)

\* a storNodeEditsNoLift call of two node-edits starts on a layer that holds
\* a property, has a log entry and a window registered with an item in it
C18_Witness ==
    /\ calls[2].pc = "edits" /\ calls[2].idx = 0 /\ calls[2].nolift
    /\ Len(calls[2].nodeedits) = 2
    /\ Len(nodeeditlog) = 1
    /\ HasRow(layr, PropKey(1, "p"))
    /\ 1 \in DOMAIN windows /\ Len(windows[1]) = 1

\* ------------------------------------------------------------------ splices
\* Layer.getNodeValu(buid): the primary value of the form row, None without one
getNodeValu(L, buid) ==
    IF HasRow(L, FormKey(buid)) THEN L.bybuid[FormKey(buid)][2] ELSE NoneV

\* meta.get(key) of a meta dict
MetaGet(meta, key) == IF key \in DOMAIN meta THEN meta[key] ELSE NoneV

\* spliceoffs that names the node-edit only
SpliceOffsFlat(offs, nodeoffs, editoffs) == <<offs, nodeoffs, 0>>

\* spliceoffs = (offs, nodeoffs, editoffs)
SpliceOffs(offs, nodeoffs, editoffs) == <<offs, nodeoffs, editoffs>>

\* props = {'time': time, 'user': user, 'prov': prov} and props['ndef']
SpliceBase(meta, form, formvalu) ==
    [time |-> MetaGet(meta, "time"), user |-> MetaGet(meta, "user"),
     prov |-> MetaGet(meta, "prov"), ndef |-> <<form, formvalu>>]

\* the (name, props) makeSplices yields for one edit that is not a nodedata
\* edit; e.kind > EDIT_TAGPROP_DEL matches no branch of the code
SpliceMesg(meta, form, formvalu, e) ==
    LET base == SpliceBase(meta, form, formvalu)
    IN  CASE e.kind = EDIT_NODE_ADD -> <<"node:add", base>>
          [] e.kind = EDIT_NODE_DEL -> <<"node:del", base>>
          [] e.kind = EDIT_PROP_SET ->
                <<"prop:set", base @@ [prop |-> e.name, valu |-> e.valu, oldv |-> e.oldv]>>
          [] e.kind = EDIT_PROP_DEL ->
                <<"prop:del", base @@ [prop |-> e.name, valu |-> e.valu]>>
          [] e.kind = EDIT_TAG_SET ->
                <<"tag:add", base @@ [tag |-> e.tag, valu |-> e.valu, oldv |-> e.oldv]>>
          [] e.kind = EDIT_TAG_DEL ->
                <<"tag:del", base @@ [tag |-> e.tag, valu |-> e.valu]>>
          [] e.kind = EDIT_TAGPROP_SET ->
                <<"tag:prop:set", base @@ [tag |-> e.tag, prop |-> e.name,
                                           valu |-> e.valu, oldv |-> e.oldv]>>
          [] e.kind = EDIT_TAGPROP_DEL ->
                <<"tag:prop:del", base @@ [tag |-> e.tag, prop |-> e.name, valu |-> e.valu]>>

\* the inner loop of makeSplices over the edits of one node-edit, from
\* position editoffs on; formvalu is what the earlier edits left in it
RECURSIVE SpliceEdits(_, _, _, _, _, _, _, _)
SpliceEdits(L, offs, meta, nodeoffs, ne, editoffs, formvalu, out) ==
    IF editoffs >= Len(ne.edits) THEN out
    ELSE IF ne.edits[editoffs + 1].kind \in {EDIT_NODEDATA_SET, EDIT_NODEDATA_DEL}
    THEN SpliceEdits(L, offs, meta, nodeoffs, ne, editoffs + 1, formvalu, out)
    ELSE IF ne.edits[editoffs + 1].kind \in {EDIT_NODE_ADD, EDIT_NODE_DEL}
    THEN SpliceEdits(L, offs, meta, nodeoffs, ne, editoffs + 1,
                     ne.edits[editoffs + 1].valu,
                     Append(out, <<SpliceOffs(offs, nodeoffs, editoffs),
                                   SpliceMesg(meta, ne.form, ne.edits[editoffs + 1].valu,
                                              ne.edits[editoffs + 1])>>))
    ELSE IF formvalu = NoneV
    THEN SpliceEdits(L, offs, meta, nodeoffs, ne, editoffs + 1, getNodeValu(L, ne.buid),
                     Append(out, <<SpliceOffs(offs, nodeoffs, editoffs),
                                   SpliceMesg(meta, ne.form, getNodeValu(L, ne.buid),
                                              ne.edits[editoffs + 1])>>))
    ELSE SpliceEdits(L, offs, meta, nodeoffs, ne, editoffs + 1, formvalu,
                     Append(out, <<SpliceOffs(offs, nodeoffs, editoffs),
                                   SpliceMesg(meta, ne.form, formvalu,
                                              ne.edits[editoffs + 1])>>))

\* the outer loop of makeSplices over the node-edits of the entry
RECURSIVE SpliceNodes(_, _, _, _, _, _)
SpliceNodes(L, offs, meta, changes, nodeoffs, out) ==
    IF nodeoffs >= Len(changes) THEN out
    ELSE SpliceNodes(L, offs, meta, changes, nodeoffs + 1,
                     SpliceEdits(L, offs, meta, nodeoffs, changes[nodeoffs + 1], 0, NoneV, out))

\* Layer.makeSplices((offs, (changes, meta))): the splices in the order they
\* are yielded, each (spliceoffs, (name, props))
makeSplices(L, offs, item) == SpliceNodes(L, offs, item.meta, item.changes, 0, <<>>)

\* Layer.splices(0, size) with size the whole log: every entry flattened
RECURSIVE splices(_, _, _, _)
splices(L, log, offs, out) ==
    IF offs >= Len(log) THEN out
    ELSE splices(L, log, offs + 1, out \o makeSplices(L, offs, log[offs + 1]))

\* the metas of the callers: one with user, time and prov, one with a user only
SpliceMetas ==
    {[user |-> <<"root">>, time |-> <<1>>, prov |-> <<"stack">>], [user |-> <<"visi">>]}

SpliceBatches ==
    MixedBatches \cup
    {<<NodeEdit(1, FormOf(1), <<NodeDataSet("n", <<1>>, NoneV), TagSet("t1", <<1, 2>>, NoneV)>>),
       NodeEdit(3, FormOf(3), <<NodeAdd(NdefValu(3), NdefType(3))>>)>>}

NextSplice ==
    \/ \E ne \in SpliceBatches : \E meta \in SpliceMetas : storNodeEdits(1, ne, meta)
    \/ CallSteps(1)

SpecSplice == Init /\ [][NextSplice]_vars

IsNodeData(e) == e.kind \in {EDIT_NODEDATA_SET, EDIT_NODEDATA_DEL}

\* the splice name of each edit kind 0..7
SpliceNames ==
    <<"node:add", "node:del", "prop:set", "prop:del", "tag:add", "tag:del",
      "tag:prop:set", "tag:prop:del">>

\* (O, i, j) order
OffsLess(a, b) ==
    \/ a[1] < b[1]
    \/ a[1] = b[1] /\ a[2] < b[2]
    \/ a[1] = b[1] /\ a[2] = b[2] /\ a[3] < b[3]

SplicesOf(O) == makeSplices(layr, O, nodeeditlog[O + 1])

\* C20 (makeSplices): for every log entry at offset O the splices hold exactly
\* one splice with offset (O, i, j) for each applied edit at position j of
\* node-edit i that is not a nodedata edit and none for a nodedata edit; each
\* splice has the name of its edit's kind and the user, time and prov of the
\* entry's meta; the splices come in increasing (O, i, j) order.
C20_SpliceFlatten ==
    \A O \in 0 .. Len(nodeeditlog) - 1 :
        /\ \A i \in DOMAIN nodeeditlog[O + 1].changes :
             \A j \in DOMAIN nodeeditlog[O + 1].changes[i].edits :
                Cardinality({k \in DOMAIN SplicesOf(O) :
                                SplicesOf(O)[k][1] = <<O, i - 1, j - 1>>})
                    = IF IsNodeData(nodeeditlog[O + 1].changes[i].edits[j]) THEN 0 ELSE 1
        /\ \A k \in DOMAIN SplicesOf(O) :
             LET o == SplicesOf(O)[k][1]
                 mesg == SplicesOf(O)[k][2]
             IN  /\ o[1] = O
                 /\ o[2] + 1 \in DOMAIN nodeeditlog[O + 1].changes
                 /\ o[3] + 1 \in DOMAIN nodeeditlog[O + 1].changes[o[2] + 1].edits
                 /\ mesg[1] = SpliceNames[nodeeditlog[O + 1].changes[o[2] + 1].edits[o[3] + 1].kind + 1]
                 /\ mesg[2].user = MetaGet(nodeeditlog[O + 1].meta, "user")
                 /\ mesg[2].time = MetaGet(nodeeditlog[O + 1].meta, "time")
                 /\ mesg[2].prov = MetaGet(nodeeditlog[O + 1].meta, "prov")
        /\ \A k \in 1 .. Len(SplicesOf(O)) - 1 :
             OffsLess(SplicesOf(O)[k][1], SplicesOf(O)[k + 1][1])

\* the second entry of the log holds a nodedata edit and a tag edit of one
\* node and the add of another under a meta with a prov; three splices come
\* out of it
C20_Witness ==
    /\ Len(nodeeditlog) = 2
    /\ nodeeditlog[2].meta = [user |-> <<"root">>, time |-> <<1>>, prov |-> <<"stack">>]
    /\ Len(nodeeditlog[2].changes) = 2
    /\ IsNodeData(nodeeditlog[2].changes[1].edits[1])
    /\ [k \in DOMAIN SplicesOf(1) |-> <<SplicesOf(1)[k][1], SplicesOf(1)[k][2][1]>>]
           = << <<<<1, 0, 1>>, "tag:add">>, <<<<1, 1, 0>>, "node:add">>,
                <<<<1, 1, 1>>, "prop:set">> >>
    /\ SplicesOf(1)[1][2][2].prov = <<"stack">>

\* every edit the call asked for was already in effect: no editor of the
\* call returned an edit
NothingDone(c) == \A i \in DOMAIN calls[c].changes : calls[c].changes[i].edits = <<>>

\* C19 (storNodeEdits, do-nothing write): when a call none of whose edits
\* changed anything passes its log step, the node-edit log and the splices
\* the layer yields are what they were before.
C19_NoExtraLog ==
    [][\A c \in Calls :
          (calls[c].pc = "edits" /\ calls'[c].pc = "logged" /\ NothingDone(c)) =>
              /\ nodeeditlog' = nodeeditlog
              /\ splices(layr', nodeeditlog', 0, <<>>) = splices(layr, nodeeditlog, 0, <<>>)]_vars

\* ------------------------------------------------------------ abbreviators
\* what the abbreviator calls leave alone
AbrvFrame ==
    UNCHANGED <<layr, nodeeditlog, offsets, windows, calls, nexslock, clock, up, hist,
                ncalls, nedits, foll, waits, lift, slabseqn>>

\* a caller (an editor, a lift) asks for the abbreviation of (form, prop)
GetPropAbrv(form, prop) ==
    /\ up
    /\ Len(abrv.hist) < MaxAbrvCalls
    /\ abrv' = [LayerGetPropAbrv(abrv, form, prop, MemoSize).a EXCEPT
                   !.hist = Append(@, [fn |-> "prop", key |-> <<form, prop>>,
                                       retn |-> LayerGetPropAbrv(abrv, form, prop, MemoSize).retn])]
    /\ AbrvFrame

\* a caller asks for the abbreviation of (form, tag, prop)
GetTagPropAbrv(form, tag, prop) ==
    /\ up
    /\ Len(abrv.hist) < MaxAbrvCalls
    /\ abrv' = [LayerGetTagPropAbrv(abrv, form, tag, prop, MemoSize).a EXCEPT
                   !.hist = Append(@, [fn |-> "tagprop", key |-> <<form, tag, prop>>,
                                       retn |-> LayerGetTagPropAbrv(abrv, form, tag, prop,
                                                                    MemoSize).retn])]
    /\ AbrvFrame

\* a caller asks for the name of an id
GetAbrvProp(n) ==
    /\ up
    /\ Len(abrv.hist) < MaxAbrvCalls
    /\ abrv' = [abrv EXCEPT !.hist = Append(@, [fn |-> "unabrv", key |-> Int64En(n),
                                                retn |-> getAbrvProp(abrv, Int64En(n))])]
    /\ AbrvFrame

AbrvProps == {<<"X", "p">>, <<"X", None>>, <<None, ".created">>}
AbrvTagProps == {<<None, None, "risk">>, <<"X", "t1", "risk">>}
AbrvBatches == {Single(1, NodeAdd(NdefValu(1), NdefType(1)))}

NextAbrv ==
    \/ \E k \in AbrvProps : GetPropAbrv(k[1], k[2])
    \/ \E k \in AbrvTagProps : GetTagPropAbrv(k[1], k[2], k[3])
    \/ \E n \in 0 .. 2 : GetAbrvProp(n)
    \/ \E ne \in AbrvBatches : storNodeEdits(1, ne, EmptyMeta)
    \/ CallSteps(1)
    \/ Crash
    \/ Restart

SpecAbrv == Init /\ [][NextAbrv]_vars

\* the calls of one kind, in the order they were made
AbrvHist(fn) == SelectSeq(abrv.hist, LAMBDA h : h.fn = fn)

\* the same key always got the same id, two keys never the same id, and a
\* key first asked for later got a greater id
AbrvStable(h) ==
    \A i, j \in DOMAIN h :
        i < j =>
            /\ Len(h[j].retn) = 8
            /\ h[i].key = h[j].key => h[i].retn = h[j].retn
            /\ h[i].key # h[j].key => h[i].retn # h[j].retn
            /\ (\A k \in 1 .. (j - 1) : h[k].key # h[j].key) => BytsLess(h[i].retn, h[j].retn)

\* C21 (abbreviation stability): over all calls made so far, with
\* allocations, cache evictions, edits and restarts between them,
\* getPropAbrv and getTagPropAbrv gave one 8-byte id per key, distinct keys
\* distinct ids in increasing order of first use; getAbrvProp of the id of
\* (form, prop) is (form, prop), and getAbrvProp of an id never assigned is
\* None.
C21_AbrvStable ==
    /\ AbrvStable(AbrvHist("prop"))
    /\ AbrvStable(AbrvHist("tagprop"))
    /\ \A i \in DOMAIN AbrvHist("prop") :
           getAbrvProp(abrv, AbrvHist("prop")[i].retn) = AbrvHist("prop")[i].key
    /\ \A n \in 0 .. MaxAbrvCalls :
           (\A i \in DOMAIN AbrvHist("prop") : AbrvHist("prop")[i].retn # Int64En(n))
               => getAbrvProp(abrv, Int64En(n)) = NoneV
    /\ \A i \in DOMAIN AbrvHist("unabrv") :
           AbrvHist("unabrv")[i].retn \in {NoneV, getAbrvProp(abrv, AbrvHist("unabrv")[i].key)}

\* (X, p) was abbreviated, two other keys after it pushed it out of the
\* cache, the process started again, and (X, p) got its first id once more
C21_Witness ==
    /\ Len(abrv.hist) = 4
    /\ \A i \in 1 .. 4 : abrv.hist[i].fn = "prop"
    /\ abrv.hist[1].key = <<"X", "p">> /\ abrv.hist[4].key = <<"X", "p">>
    /\ abrv.hist[2].key = <<"X", None>> /\ abrv.hist[3].key = <<None, ".created">>
    /\ abrv.hist[4].retn = Int64En(0) /\ abrv.hist[3].retn = Int64En(2)
    /\ Len(nodeeditlog) >= 1
    /\ abrv.propmemo = << <<<<"X", "p">>, Int64En(0)>> >>

\* ------------------------------------------------------- a window that fills
\* what a do-nothing call logs: one node-edit without edits
IdleChanges == <<NodeEdit(1, FormOf(1), <<>>)>>

\* the layer after WindowMax - 1 calls that changed nothing, all made after
\* window 1 was registered by a consumer that has read none of them
InitWind ==
    /\ layr = EmptyLayer
    /\ nodeeditlog = [i \in 1 .. (WindowMax - 1) |-> [changes |-> IdleChanges, meta |-> EmptyMeta]]
    /\ offsets = [k \in {APPLIED} |-> WindowMax - 2]
    /\ windows = [w \in {1} |-> [i \in 1 .. (WindowMax - 1) |-> <<i - 1, IdleChanges>>]]
    /\ calls = [c \in Calls |-> IdleCall]
    /\ nexslock = 0
    /\ clock = 1
    /\ up = TRUE
    /\ hist = <<>>
    /\ ncalls = 0
    /\ nedits = 0
    /\ foll = EmptyFoll
    /\ abrv = EmptyAbrv
    /\ waits = NoWaits
    /\ lift = NoLift
    /\ slabseqn = NewSeqn

WindBatches ==
    {Single(1, NodeAdd(NdefValu(1), NdefType(1))),
     Single(1, PropSet("p", <<1>>, NoneV, STOR_TYPE_I8)),
     Single(1, NodeDataDel("n", NoneV))}

\* window 3 belongs to a consumer that reads; the consumer of window 1 does not
NextWind ==
    \/ \E c \in Calls, ne \in WindBatches : storNodeEdits(c, ne, EmptyMeta)
    \/ \E c \in Calls : CallSteps(c)
    \/ getNodeEditWindow(3)
    \/ WindowGet(3)

SpecWind == InitWind /\ [][NextWind]_vars

\* the call is at its log step
AtLogAdd(c) == calls[c].pc = "edits" /\ calls[c].idx = Len(calls[c].nodeedits)

IntSizes == {1, 2, 4, 8, 16}

\* An integer of any width is written [k, d] for k * 2 ** (size * 8 - 1) + d
\* with a small d, so that the values next to both ends of every width are at
\* hand: [-1, 0] is -2 ** (size * 8 - 1) and [1, -1] is 2 ** (size * 8 - 1) - 1.
MaxDelta == 2
WideVals == [k : {-1, 0, 1}, d : -MaxDelta..MaxDelta]
WideLess(a, b) == a.k < b.k \/ (a.k = b.k /\ a.d < b.d)

\* m * 2 ** (size * 8 - 1) for m in 0 .. 2 as size + 1 big-endian bytes
WideBase(size, m) ==
    [i \in 1..(size + 1) |->
        IF m = 2 /\ i = 1 THEN 1 ELSE IF m = 1 /\ i = 2 THEN 128 ELSE 0]

\* StorTypeInt.getIntIndx of a handler of this size and signedness:
\* valu + self.offset, the offset being 2 ** (size * 8 - 1) - 1 when signed,
\* and to_bytes(size, 'big'), which raises OverflowError for a negative sum
\* and for one that needs more than size bytes
getIntIndxWide(size, signed, valu) ==
    LET m == valu.k + (IF signed THEN 1 ELSE 0)
        e == valu.d - (IF signed THEN 1 ELSE 0)
        sum == AddInt(WideBase(size, m), e)
    IN  IF m < 0 \/ sum[1] # 0 THEN [ok |-> FALSE, byts |-> <<>>]
        ELSE [ok |-> TRUE, byts |-> Tail(sum)]

\* the requests: indx(a) and indx(b) asked of one handler
IndxAsks ==
    {[fn |-> "ask", size |-> size, signed |-> signed, a |-> a, b |-> b] :
        size \in IntSizes, signed \in BOOLEAN, a \in WideVals, b \in WideVals}

InitIndx ==
    /\ layr = EmptyLayer
    /\ nodeeditlog = <<>>
    /\ offsets = [k \in {} |-> 0]
    /\ windows = [w \in {} |-> <<>>]
    /\ calls = [c \in Calls |-> IdleCall]
    /\ nexslock = 0
    /\ clock = 1
    /\ up = TRUE
    /\ hist = <<>>
    /\ ncalls = 0
    /\ nedits = 0
    /\ foll = EmptyFoll
    /\ abrv = EmptyAbrv
    /\ waits = NoWaits
    /\ lift \in IndxAsks
    /\ slabseqn = NewSeqn

\* the handler answers the request
IndxCall ==
    /\ lift.fn = "ask"
    /\ lift' = [fn |-> "getIntIndx", size |-> lift.size, signed |-> lift.signed,
                a |-> lift.a, b |-> lift.b,
                ia |-> getIntIndxWide(lift.size, lift.signed, lift.a),
                ib |-> getIntIndxWide(lift.size, lift.signed, lift.b)]
    /\ UNCHANGED <<layr, nodeeditlog, offsets, windows, calls, nexslock, clock, up,
                   hist, ncalls, nedits, foll, abrv, waits, slabseqn>>

NextIndx == IndxCall

SpecIndx == InitIndx /\ [][NextIndx]_vars

\* the two's-complement range of a signed width
WideMin == [k |-> -1, d |-> 0]
WideMax == [k |-> 1, d |-> -1]
InWide(v) == ~WideLess(v, WideMin) /\ ~WideLess(WideMax, v)

\* C25: for every signed width, indx of the smallest value of the
\* two's-complement range is all 0x00 bytes, indx of the largest is all 0xff
\* bytes, every value of the range encodes to exactly size bytes, and a < b
\* implies indx(a) < indx(b) in byte order
C25_SignedBounds ==
    (lift.fn = "getIntIndx" /\ lift.signed /\ InWide(lift.a) /\ InWide(lift.b)) =>
        /\ lift.ia.ok
        /\ Len(lift.ia.byts) = lift.size
        /\ (lift.a = WideMin) => (lift.ia.byts = [i \in 1..lift.size |-> 0])
        /\ (lift.a = WideMax) => (lift.ia.byts = [i \in 1..lift.size |-> 255])
        /\ WideLess(lift.a, lift.b) =>
               (lift.ib.ok /\ BytsLess(lift.ia.byts, lift.ib.byts))

\* ------------------------------------------------------------------- lifts
\* what a lift gave: the exception it raised ("" for none) and the buids it
\* yielded
LiftGave(raised, buids) == [raised |-> raised, buids |-> buids]

\* the rows of a database under one abbreviation, in scan order
ScanRows(db, abrvkey) == ScanOrder({r \in db : r[1] = abrvkey})
RowBuids(rows) == [i \in DOMAIN rows |-> rows[i][3]]

\* IndxBy.buidsByDups(indx): the rows of the key abrv + indx
buidsByDups(db, abrvkey, indx) ==
    RowBuids(SelectSeq(ScanRows(db, abrvkey), LAMBDA r : r[2] = indx))

\* IndxBy.buidsByRange(minindx, maxindx): the rows from abrv + minindx to
\* abrv + maxindx, both ends included
buidsByRange(db, abrvkey, minindx, maxindx) ==
    RowBuids(SelectSeq(ScanRows(db, abrvkey),
                       LAMBDA r : ~BytsLess(r[2], minindx) /\ ~BytsLess(maxindx, r[2])))

\* (valu + self.offset).to_bytes(self.size, 'big') raises OverflowError
IntRange(kind, db, abrvkey, lo, hi) ==
    IF CanIndxOne(kind, lo) /\ CanIndxOne(kind, hi)
    THEN LiftGave("", buidsByRange(db, abrvkey, getIntIndx(kind, lo), getIntIndx(kind, hi)))
    ELSE LiftGave("OverflowError", <<>>)

\* StorTypeInt._liftIntGe(valu + step): step is 1 for _liftIntGt
IntGe(kind, db, abrvkey, valu, step) ==
    IF CanIndxOne(kind, valu + step)
    THEN LiftGave("", buidsByRange(db, abrvkey, getIntIndx(kind, valu + step),
                                   [i \in 1..IntSize(kind) |-> 255]))
    ELSE LiftGave("OverflowError", <<>>)

\* StorTypeInt._liftIntLe(valu - step): step is 1 for _liftIntLt
IntLe(kind, db, abrvkey, valu, step) ==
    IF CanIndxOne(kind, valu - step)
    THEN LiftGave("", buidsByRange(db, abrvkey, [i \in 1..IntSize(kind) |-> 0],
                                   getIntIndx(kind, valu - step)))
    ELSE LiftGave("OverflowError", <<>>)

\* the lifters of StorTypeInt
IntLift(kind, db, abrvkey, cmpr, valu) ==
    CASE cmpr = "="  -> IF CanIndxOne(kind, valu[1])
                        THEN LiftGave("", buidsByDups(db, abrvkey, getIntIndx(kind, valu[1])))
                        ELSE LiftGave("OverflowError", <<>>)
      [] cmpr = ">"  -> IntGe(kind, db, abrvkey, valu[1], 1)
      [] cmpr = ">=" -> IntGe(kind, db, abrvkey, valu[1], 0)
      [] cmpr = "<"  -> IntLe(kind, db, abrvkey, valu[1], 1)
      [] cmpr = "<=" -> IntLe(kind, db, abrvkey, valu[1], 0)
      [] cmpr = "range=" -> IntRange(kind, db, abrvkey, valu[1], valu[2])

\* StorTypeTime._liftAtIval
_liftAtIval(db, abrvkey, valu) ==
    IntRange(STOR_TYPE_TIME, db, abrvkey, valu[1], valu[2] - 1)

\* the last 16 bytes of a key: lkey[-16:-8] and lkey[-8:]
IvalTick(indx) == SubSeq(indx, Len(indx) - 15, Len(indx) - 8)
IvalTock(indx) == SubSeq(indx, Len(indx) - 7, Len(indx))

\* StorTypeIval._liftIvalAt with a closed right end
_liftIvalAtClosed(db, abrvkey, valu) ==
    LET minindx == getIntIndx(STOR_TYPE_TIME, valu[1])
        maxindx == getIntIndx(STOR_TYPE_TIME, valu[2])
    IN  LiftGave("", RowBuids(SelectSeq(ScanRows(db, abrvkey),
            LAMBDA r : ~BytsLess(maxindx, IvalTick(r[2])) /\ BytsLess(minindx, IvalTock(r[2])))))

\* StorTypeIval._liftIvalAt: a row is skipped when tick >= maxindx and when
\* tock <= minindx
_liftIvalAt(db, abrvkey, valu) ==
    LET minindx == getIntIndx(STOR_TYPE_TIME, valu[1])
        maxindx == getIntIndx(STOR_TYPE_TIME, valu[2])
    IN  LiftGave("", RowBuids(SelectSeq(ScanRows(db, abrvkey),
            LAMBDA r : BytsLess(IvalTick(r[2]), maxindx) /\ BytsLess(minindx, IvalTock(r[2])))))

\* StorTypeIval._liftIvalEq
_liftIvalEq(db, abrvkey, valu) ==
    LiftGave("", buidsByDups(db, abrvkey,
        getIntIndx(STOR_TYPE_TIME, valu[1]) \o getIntIndx(STOR_TYPE_TIME, valu[2])))

\* self.lifters of the handlers of Layer.stortypes
IntCmprs == {"=", "<", ">", "<=", ">=", "range="}
Lifters(kind) ==
    CASE kind \in {STOR_TYPE_U8, STOR_TYPE_I8} -> IntCmprs
      [] kind = STOR_TYPE_TIME -> IntCmprs \cup {"@="}
      [] kind = STOR_TYPE_IVAL -> {"=", "@="}
      [] kind = STOR_TYPE_MSGP -> {"="}

\* StorType.indxBy: self.lifters.get(cmpr), NoSuchCmpr when there is none,
\* else what the lifter yields
indxBy(L, db, abrvkey, kind, cmpr, valu) ==
    IF cmpr \notin Lifters(kind) THEN LiftGave("NoSuchCmpr", <<>>)
    ELSE CASE kind \in {STOR_TYPE_U8, STOR_TYPE_I8} -> IntLift(kind, db, abrvkey, cmpr, valu)
           [] kind = STOR_TYPE_TIME ->
                  IF cmpr = "@=" THEN _liftAtIval(db, abrvkey, valu)
                  ELSE IntLift(kind, db, abrvkey, cmpr, valu)
           [] kind = STOR_TYPE_IVAL ->
                  IF cmpr = "@=" THEN _liftIvalAt(db, abrvkey, valu)
                  ELSE _liftIvalEq(db, abrvkey, valu)
           [] kind = STOR_TYPE_MSGP ->
                  LiftGave("", buidsByDups(db, abrvkey, MsgpIndx(valu)))

\* for cmpr, valu, kind in cmprvals: the buids of each in turn, up to the
\* first that raises
RECURSIVE LiftVals(_, _, _, _, _, _)
LiftVals(L, db, abrvkey, msgp, cmprvals, out) ==
    IF cmprvals = <<>> THEN LiftGave("", out)
    ELSE LET cv == Head(cmprvals)
             kind == IF msgp /\ IsArray(cv.kind) THEN STOR_TYPE_MSGP ELSE cv.kind
             r == indxBy(L, db, abrvkey, kind, cv.cmpr, cv.valu)
         IN  IF r.raised # "" THEN LiftGave(r.raised, out \o r.buids)
             ELSE LiftVals(L, db, abrvkey, msgp, Tail(cmprvals), out \o r.buids)

\* Layer.getNodeTag
getNodeTag(L, buid, tag) ==
    IF SlabGet(L.bybuid, TagKey(buid, tag)) = NoByts THEN NoneV
    ELSE MsgpackUn(SlabGet(L.bybuid, TagKey(buid, tag)))

\* StorTypeTag.getTagFilt: the comparators it has a filter for
TagCmprs == {"=", "@="}

\* the filters filt1 and filt2 of getTagFilt applied to a tag value
TagFilt(cmpr, valu, item) ==
    IF cmpr = "=" THEN item = valu
    ELSE /\ item # NoneV
         /\ item # <<Nil, Nil>>
         /\ ~(item[1] >= valu[2])
         /\ ~(item[2] <= valu[1])

\* the rows of bytag under the tag, and under the form when one is given;
\* the nodes tagged here are of one form, so that the rows are in buid order
TagRows(L, tag, form) ==
    ScanOrder({<<r[1], <<>>, r[3]>> : r \in
        {t \in L.bytag : t[1] = tagAbrv(tag) /\ (form = None \/ t[2] = getPropAbrv(form, None))}})

\* Layer.liftByTagValu
liftByTagValu(L, tag, cmpr, valu, form) ==
    IF cmpr \notin TagCmprs THEN LiftGave("NoSuchCmpr", <<>>)
    ELSE LiftGave("", RowBuids(SelectSeq(TagRows(L, tag, form),
                      LAMBDA r : TagFilt(cmpr, valu, getNodeTag(L, r[3], tag)))))

\* the four lifts through a storage type: the database and the abbreviation
\* of their IndxBy
LiftDb(L, fn) ==
    CASE fn = "liftByPropArray" -> L.byarray
      [] fn = "liftByTagPropValu" -> L.bytagprop
      [] OTHER -> L.byprop
LiftAbrvKey(fn, form, tag, prop) ==
    CASE fn = "liftByFormValu" -> getPropAbrv(form, None)
      [] fn = "liftByTagPropValu" -> getTagPropAbrv(form, tag, prop)
      [] OTHER -> getPropAbrv(form, prop)

\* what a lift yields and raises
LiftYield(L, fn, form, tag, prop, cmprvals) ==
    IF fn = "liftByTagValu"
    THEN liftByTagValu(L, tag, cmprvals[1].cmpr, cmprvals[1].valu, form)
    ELSE LiftVals(L, LiftDb(L, fn), LiftAbrvKey(fn, form, tag, prop),
                  fn = "liftByPropValu", cmprvals, <<>>)

\* the abbreviators after a lift: the IndxBy of every cmprval asks for the
\* abbreviation (IndxByForm, IndxByProp, IndxByPropArray, IndxByTagProp), and
\* liftByTagValu asks tagabrv and, with a form, getPropAbrv(form, None)
LiftAbrv(a, fn, form, tag, prop, cmprvals) ==
    CASE fn = "liftByTagValu" ->
             LET a1 == [a EXCEPT !.tagabrv = bytsToAbrv(@, <<tag>>).tbl]
             IN  IF form = None THEN a1 ELSE LayerGetPropAbrv(a1, form, None, MemoSize).a
      [] cmprvals = <<>> -> a
      [] fn = "liftByFormValu" -> LayerGetPropAbrv(a, form, None, MemoSize).a
      [] fn = "liftByTagPropValu" -> LayerGetTagPropAbrv(a, form, tag, prop, MemoSize).a
      [] OTHER -> LayerGetPropAbrv(a, form, prop, MemoSize).a

LiftFns == {"liftByFormValu", "liftByPropValu", "liftByPropArray",
            "liftByTagPropValu", "liftByTagValu"}

\* a lift, run to its end
Lift(fn, form, tag, prop, cmprvals) ==
    /\ up
    /\ abrv' = LiftAbrv(abrv, fn, form, tag, prop, cmprvals)
    /\ lift' = [fn |-> fn, form |-> form, tag |-> tag, prop |-> prop,
                cmprvals |-> cmprvals,
                gave |-> LiftYield(layr, fn, form, tag, prop, cmprvals)]
    /\ UNCHANGED <<layr, nodeeditlog, offsets, windows, calls, nexslock, clock, up,
                   hist, ncalls, nedits, foll, waits, slabseqn>>


\* ---------------------------------------------------- unsupported comparator
\* one comparator, value and storage type
CmprVal(cmpr, valu, kind) == [cmpr |-> cmpr, valu |-> valu, kind |-> kind]

\* the writes name form X, property p, tag t1 and its property risk; the
\* lifts name those and form Y, property q and tag t2, which nothing writes
CmprBatches ==
    {<<NodeEdit(1, FormOf(1), <<NodeAdd(NdefValu(1), NdefType(1)),
                                PropSet("p", <<1>>, NoneV, STOR_TYPE_U8)>>)>>,
     <<NodeEdit(2, FormOf(2), <<NodeAdd(NdefValu(2), NdefType(2)),
                                TagSet("t1", <<1, 2>>, NoneV),
                                TagPropSet("t1", "risk", <<1>>, NoneV, STOR_TYPE_U8)>>)>>}
CmprForms == {"X", "Y"}
CmprProps == {"p", "q"}
CmprTags == {"t1", "t2"}
\* '^=' is a comparator of the string types only
CmprVals == {<<CmprVal(c, <<1>>, STOR_TYPE_U8)>> : c \in {"=", "^="}}

\* the writes, and then one lift
NextCmpr ==
    \/ lift = NoLift /\ \E ne \in CmprBatches : storNodeEdits(1, ne, EmptyMeta)
    \/ lift = NoLift /\ CallSteps(1)
    \/ lift = NoLift /\ \E fn \in LiftFns, form \in CmprForms, tag \in CmprTags, prop \in CmprProps,
          cv \in CmprVals : Lift(fn, form, tag, prop, cv)

SpecCmpr == Init /\ [][NextCmpr]_vars

\* the lift asks for a comparator its storage type does not have
Unsupported(l) ==
    IF l.fn = "liftByTagValu" THEN l.cmprvals[1].cmpr \notin TagCmprs
    ELSE l.cmprvals[1].cmpr \notin Lifters(l.cmprvals[1].kind)

\* the tables of the abbreviators, which are in the slab
AbrvTables(a) == <<a.propabrv, a.tagpropabrv, a.tagabrv>>

\* the lift names a form, a property and a tag that no write has named
NeverSeen(l) == l.form = "Y" /\ l.prop = "q" /\ l.tag = "t2"

\* C23: a lift asked with a comparator the storage type does not expose
\* fails with NoSuchCmpr, yields no buid, and changes no row of the layer and
\* no table of the abbreviators, also when its form, property or tag was
\* never seen before
C23_NoSuchCmpr ==
    [][(lift' # lift /\ lift'.fn \in LiftFns /\ Unsupported(lift')) =>
          /\ lift'.gave = LiftGave("NoSuchCmpr", <<>>)
          /\ layr' = layr
          /\ NeverSeen(lift') => AbrvTables(abrv') = AbrvTables(abrv)]_vars

\* ------------------------------------------------------- integer comparators
\* property p is an unsigned and property s a signed one-byte integer
IntBatches ==
    {Single(1, PropSet("p", <<0>>, NoneV, STOR_TYPE_U8)),
     Single(1, PropSet("p", <<127>>, NoneV, STOR_TYPE_U8)),
     Single(2, PropSet("p", <<1>>, NoneV, STOR_TYPE_U8)),
     Single(2, PropSet("p", <<127>>, NoneV, STOR_TYPE_U8)),
     Single(1, PropSet("s", <<1>>, NoneV, STOR_TYPE_I8))}

\* the right-hand values: both ends of the range of the type and values
\* between
IntRights(kind) == IF kind = STOR_TYPE_U8 THEN {0, 1, 127, 255} ELSE {-128, -127, 1, 127}
IntProp(kind) == IF kind = STOR_TYPE_U8 THEN "p" ELSE "s"
IntCmprVals(kind) ==
    {<<CmprVal(c, <<v>>, kind)>> : c \in IntCmprs \ {"range="}, v \in IntRights(kind)}
    \cup {<<CmprVal("range=", <<r[1], r[2]>>, kind)>> :
              r \in {x \in IntRights(kind) \X IntRights(kind) : x[1] <= x[2]}}

\* the writes, and then one lift by property value
NextInt ==
    \/ lift = NoLift /\ \E ne \in IntBatches : storNodeEdits(1, ne, EmptyMeta)
    \/ lift = NoLift /\ CallSteps(1)
    \/ lift = NoLift /\ \E kind \in {STOR_TYPE_U8, STOR_TYPE_I8} :
            \E cv \in IntCmprVals(kind) : Lift("liftByPropValu", "X", "", IntProp(kind), cv)

SpecInt == Init /\ [][NextInt]_vars

\* the comparison of a stored integer x with the right-hand value
IntHolds(cmpr, x, valu) ==
    CASE cmpr = "="  -> x = valu[1]
      [] cmpr = "<"  -> x < valu[1]
      [] cmpr = "<=" -> x <= valu[1]
      [] cmpr = ">"  -> x > valu[1]
      [] cmpr = ">=" -> x >= valu[1]
      [] cmpr = "range=" -> valu[1] <= x /\ x <= valu[2]

\* the buids of the form whose stored property satisfies the comparison
IntMatches(L, form, prop, cv) ==
    {b \in Buids : /\ FormOf(b) = form
                   /\ PropKey(b, prop) \in DOMAIN L.bybuid
                   /\ IntHolds(cv.cmpr, PropRow(L, b, prop).valu[1], cv.valu)}

\* C24: for every right-hand value of the range of an integer type, both
\* ends included, the lifts '=', '<', '<=', '>', '>=' and 'range=' yield
\* exactly the buids whose stored value satisfies the comparison, each once,
\* and a comparison nothing can satisfy yields nothing rather than failing
C24_IntCmprs ==
    (lift.fn = "liftByPropValu") =>
        /\ lift.gave.raised = ""
        /\ Range(lift.gave.buids) = IntMatches(layr, lift.form, lift.prop, lift.cmprvals[1])
        /\ Len(lift.gave.buids) = Cardinality(Range(lift.gave.buids))

\* --------------------------------------------------------- interval overlap
\* property seen is an interval and tag t1 has an interval value or none;
\* the times are the claim's 50 .. 250 divided by ten
IvalBatches ==
    {Single(1, PropSet("seen", <<10, 20>>, NoneV, STOR_TYPE_IVAL)),
     Single(2, PropSet("seen", <<5, 10>>, NoneV, STOR_TYPE_IVAL)),
     Single(2, PropSet("seen", <<20, 25>>, NoneV, STOR_TYPE_IVAL)),
     Single(1, TagSet("t1", <<10, 20>>, NoneV)),
     Single(2, TagSet("t1", <<Nil, Nil>>, NoneV)),
     Single(2, TagSet("t1", <<15, 16>>, NoneV))}
IvalQueries == {<<5, 10>>, <<15, 25>>, <<10, 20>>, <<20, 30>>, <<1, 30>>, <<12, 13>>}

\* the writes, and then one lift '@='
NextIval ==
    \/ lift = NoLift /\ \E ne \in IvalBatches : storNodeEdits(1, ne, EmptyMeta)
    \/ lift = NoLift /\ CallSteps(1)
    \/ lift = NoLift /\ \E q \in IvalQueries :
            Lift("liftByPropValu", "X", "", "seen", <<CmprVal("@=", q, STOR_TYPE_IVAL)>>)
    \/ lift = NoLift /\ \E q \in IvalQueries, form \in {None, "X"} :
            Lift("liftByTagValu", form, "t1", "", <<CmprVal("@=", q, STOR_TYPE_IVAL)>>)

SpecIval == Init /\ [][NextIval]_vars

\* the right-open intervals (lo, hi) and (qlo, qhi) have a point in common
Overlaps(ival, q) == ival[1] < q[2] /\ ival[2] > q[1]

\* the buids whose stored interval property overlaps the query
IvalMatches(L, form, prop, q) ==
    {b \in Buids : /\ FormOf(b) = form
                   /\ PropKey(b, prop) \in DOMAIN L.bybuid
                   /\ Overlaps(PropRow(L, b, prop).valu, q)}

\* the buids whose tag has an interval value that overlaps the query
TagMatches(L, form, tag, q) ==
    {b \in Buids : /\ form \in {None, FormOf(b)}
                   /\ TagKey(b, tag) \in DOMAIN L.bybuid
                   /\ getNodeTag(L, b, tag) # <<Nil, Nil>>
                   /\ Overlaps(getNodeTag(L, b, tag), q)}

\* C26: the IVAL lift '@=' (qlo, qhi) and liftByTagValu(tag, '@=', (qlo, qhi))
\* yield a buid exactly when its stored interval (lo, hi) has lo < qhi and
\* hi > qlo; a tag without an interval value is never yielded
C26_IvalOverlap ==
    /\ (lift.fn = "liftByPropValu") =>
           /\ lift.gave.raised = ""
           /\ Range(lift.gave.buids) =
                  IvalMatches(layr, lift.form, lift.prop, lift.cmprvals[1].valu)
           /\ Len(lift.gave.buids) = Cardinality(Range(lift.gave.buids))
    /\ (lift.fn = "liftByTagValu") =>
           /\ lift.gave.raised = ""
           /\ Range(lift.gave.buids) =
                  TagMatches(layr, lift.form, lift.tag, lift.cmprvals[1].valu)
           /\ Len(lift.gave.buids) = Cardinality(Range(lift.gave.buids))

\* node 1 holds [10, 20) and node 2 holds [5, 10): the query [5, 10) has
\* yielded node 2 alone
C26_Witness ==
    /\ lift.fn = "liftByPropValu"
    /\ lift.cmprvals[1].valu = <<5, 10>>
    /\ PropKey(1, "seen") \in DOMAIN layr.bybuid
    /\ PropKey(2, "seen") \in DOMAIN layr.bybuid
    /\ PropRow(layr, 1, "seen").valu = <<10, 20>>
    /\ PropRow(layr, 2, "seen").valu = <<5, 10>>
    /\ lift.gave.buids = <<2>>

\* ------------------------------------------------- syncNodeEdits hand-over
\* the offset the consumer of syncNodeEdits is to receive next: one past the
\* last it received, which is the follower's stored offset when all it
\* received is applied
NextDue(f) == IF f.q # <<>> THEN f.q[Len(f.q)][1] + 1 ELSE UpOffs(f.offsets)

\* the items of the window are the log's entries from offset n on
WindowHolds(q, n) ==
    /\ n + Len(q) = Len(nodeeditlog)
    /\ \A i \in DOMAIN q : q[i] = <<n + i - 1, nodeeditlog[n + i].changes>>

RECURSIVE IterAll(_, _, _)
IterAll(L, gen, out) ==
    LET r == iterLayerNodeEdits(L, gen, NextKey(L.bybuid, gen.cursor))
    IN  IF r.end THEN out ELSE IterAll(L, r.gen, Append(out, r.item))

\* node 1 with a property, a tag, a tag property and node data; rows of
\* buid 2, which gets no form row, and of buid 3, with or without its node
IterBatches ==
    {<<NodeEdit(1, FormOf(1), <<NodeAdd(NdefValu(1), NdefType(1)),
                                NodeDataSet("n", <<1>>, NoneV)>>)>>,
     <<NodeEdit(1, FormOf(1), <<PropSet("p", <<1>>, NoneV, STOR_TYPE_I8),
                                TagSet("t1", <<1, 2>>, NoneV)>>)>>,
     Single(1, TagPropSet("t1", "risk", <<1>>, NoneV, STOR_TYPE_I8)),
     Single(2, PropSet("p", <<1>>, NoneV, STOR_TYPE_I8)),
     Single(3, TagSet("t1", <<1, 2>>, NoneV)),
     Single(3, NodeAdd(NdefValu(3), NdefType(3)))}

\* a consumer drains iterLayerNodeEdits
IterCall ==
    /\ up
    /\ lift' = [fn |-> "iterLayerNodeEdits", items |-> IterAll(layr, GenInit, <<>>)]
    /\ UNCHANGED <<layr, nodeeditlog, offsets, windows, calls, nexslock, clock, up,
                   hist, ncalls, nedits, foll, abrv, waits, slabseqn>>

\* the writes, and then one drain
NextIter ==
    \/ lift = NoLift /\ \E ne \in IterBatches : storNodeEdits(1, ne, EmptyMeta)
    \/ lift = NoLift /\ CallSteps(1)
    \/ lift = NoLift /\ IterCall

SpecIter == Init /\ [][NextIter]_vars

\* the names of the rows of a buid under one flag, and of the edits of one
\* kind
RowNames(L, buid, flag) ==
    {<<k[3], k[4]>> : k \in {x \in DOMAIN L.bybuid : x[1] = buid /\ x[2] = flag}}
EditName(e) ==
    CASE e.kind = EDIT_TAG_SET -> <<e.tag, "">>
      [] e.kind = EDIT_TAGPROP_SET -> <<e.tag, e.name>>
      [] OTHER -> <<e.name, "">>
EditsOfKind(edits, kind) == SelectSeq(edits, LAMBDA e : e.kind = kind)
EditNames(edits, kind) == {EditName(e) : e \in Range(EditsOfKind(edits, kind))}

\* the edits of kind are one per row and no more
OnePerRow(edits, kind, names) ==
    /\ EditNames(edits, kind) = names
    /\ Len(EditsOfKind(edits, kind)) = Cardinality(names)

\* the node-edit of a buid: NODE_ADD, then the properties, the tags, the tag
\* properties, then the node data
Grouped(L, ne) ==
    /\ ne.edits # <<>>
    /\ ne.edits[1].kind = EDIT_NODE_ADD
    /\ Len(EditsOfKind(ne.edits, EDIT_NODE_ADD)) = 1
    /\ \A i \in DOMAIN ne.edits : \A j \in DOMAIN ne.edits :
           i < j => ne.edits[i].kind <= ne.edits[j].kind
    /\ \A e \in Range(ne.edits) :
           e.kind \in {EDIT_NODE_ADD, EDIT_PROP_SET, EDIT_TAG_SET, EDIT_TAGPROP_SET,
                       EDIT_NODEDATA_SET}
    /\ OnePerRow(ne.edits, EDIT_PROP_SET, RowNames(L, ne.buid, 1))
    /\ OnePerRow(ne.edits, EDIT_TAG_SET, RowNames(L, ne.buid, 2))
    /\ OnePerRow(ne.edits, EDIT_TAGPROP_SET, RowNames(L, ne.buid, 3))
    /\ OnePerRow(ne.edits, EDIT_NODEDATA_SET,
                 {<<nm, "">> : nm \in {x \in Range(NameOrder) : DataKey(ne.buid, x) \in DOMAIN L.nodedata}})

\* C28: iterLayerNodeEdits yields exactly one node-edit for every buid that
\* has a form row, made of one NODE_ADD, one PROP_SET, TAG_SET and
\* TAGPROP_SET per row and each NODEDATA_SET once; rows of a buid without a
\* form row yield nothing and make no node-edit come again or grow
C28_Grouping ==
    (lift.fn = "iterLayerNodeEdits") =>
        /\ \A b \in Buids :
               Cardinality({i \in DOMAIN lift.items : lift.items[i].buid = b})
                   = IF FormKey(b) \in DOMAIN layr.bybuid THEN 1 ELSE 0
        /\ \A i \in DOMAIN lift.items : Grouped(layr, lift.items[i])

\* ------------------------------------------------------ log offset waiters
\* number of getOffsetEvent and waitForOffset calls in a behaviour
MaxSeqnWaits == 2

\* the log's index(): the offset the next item gets
SeqnIndx == Len(nodeeditlog)

SeqnFrame ==
    UNCHANGED <<layr, nodeeditlog, offsets, windows, calls, nexslock, clock, up, hist,
                ncalls, nedits, foll, abrv, lift, slabseqn>>

\* a task asks the node-edit log for the event of an offset
getOffsetEvent(offs) ==
    /\ up
    /\ Len(waits.evnts) < MaxSeqnWaits
    /\ waits' = SeqnOffsetEvent(waits, offs, SeqnIndx)
    /\ SeqnFrame

\* SlabSeqn.waitForOffset(offs, timeout) up to its await: True at once when
\* offs < self.indx, else the task waits on the event of getOffsetEvent
waitForOffset(offs) ==
    /\ up
    /\ Len(waits.evnts) < MaxSeqnWaits
    /\ Len(waits.waiters) < MaxSeqnWaits
    /\ waits' = IF offs < SeqnIndx
                THEN [waits EXCEPT !.waiters = Append(@,
                          [offs |-> offs, evnt |-> 0, retn |-> "True", at |-> SeqnIndx])]
                ELSE [SeqnOffsetEvent(waits, offs, SeqnIndx) EXCEPT !.waiters = Append(@,
                          [offs |-> offs, evnt |-> Len(waits.evnts) + 1, retn |-> "wait",
                           at |-> SeqnIndx])]
    /\ SeqnFrame

\* s_coro.event_wait(evnt, timeout) returns: True when the event is set,
\* False when the timeout ends the wait on an event that is not set
EventWait(i) ==
    /\ up
    /\ i \in DOMAIN waits.waiters
    /\ waits.waiters[i].retn = "wait"
    /\ waits' = [waits EXCEPT !.waiters[i].retn =
                     IF waits.evnts[waits.waiters[i].evnt].set THEN "True" ELSE "False",
                              !.waiters[i].at = SeqnIndx]
    /\ SeqnFrame

\* SlabSeqn.save(items): the items are appended, self.indx advances past
\* them, and the waiters are woken
SeqnSave(items) ==
    /\ up
    /\ \A c \in Calls : calls[c].pc = "idle"
    /\ ncalls + Len(items) <= MaxCalls
    /\ ncalls' = ncalls + Len(items)
    /\ nodeeditlog' = nodeeditlog \o items
    /\ waits' = _wake_waiters(waits, Len(nodeeditlog) + Len(items))
    /\ UNCHANGED <<layr, offsets, windows, calls, nexslock, clock, up, hist,
                   nedits, foll, abrv, lift, slabseqn>>

SeqnItem == [changes |-> IdleChanges, meta |-> EmptyMeta]
SeqnBatches == {Single(1, NodeAdd(NdefValu(1), NdefType(1)))}

NextSeqn ==
    \/ \E ne \in SeqnBatches : storNodeEdits(1, ne, EmptyMeta)
    \/ CallSteps(1)
    \/ SeqnSave(<<SeqnItem, SeqnItem>>)
    \/ \E n \in 0 .. MaxCalls : getOffsetEvent(n)
    \/ \E n \in 0 .. MaxCalls : waitForOffset(n)
    \/ \E i \in 1 .. MaxSeqnWaits : EventWait(i)

SpecSeqn == Init /\ [][NextSeqn]_vars

\* C29: the event of getOffsetEvent(n) is set at creation when n < index();
\* otherwise it is not set while index() <= n and is set by the add or save
\* that takes index() past n; no waiter with offs < index() stays in the
\* heap; waitForOffset(n) returns True once offset n is written and False
\* when its timeout ends first
C29_OffsetWaiters ==
    /\ \A i \in DOMAIN waits.evnts :
           LET e == waits.evnts[i]
           IN  e.set <=> (e.offs < SeqnIndx)
    /\ \A i \in DOMAIN waits.offsevents : waits.offsevents[i][1] >= SeqnIndx
    /\ \A i \in DOMAIN waits.evnts :
           (~waits.evnts[i].set) <=>
               (\E j \in DOMAIN waits.offsevents : waits.offsevents[j][3] = i)
    /\ \A i \in DOMAIN waits.waiters :
           LET w == waits.waiters[i]
           IN  /\ w.retn = "True" => w.offs < w.at
               /\ w.retn = "False" => w.offs >= w.at
               /\ (w.retn = "wait" /\ w.offs < SeqnIndx) => waits.evnts[w.evnt].set

\* two tasks waited for offset 1 with nothing written: one save wrote
\* offsets 0 and 1 and set both events, the first task has returned True and
\* the second had timed out before
C29_Witness ==
    /\ Len(waits.evnts) = 2
    /\ \A i \in 1 .. 2 : waits.evnts[i].offs = 1 /\ waits.evnts[i].at = 0 /\ waits.evnts[i].set
    /\ Len(waits.waiters) = 2
    /\ waits.waiters[1].retn = "True"
    /\ waits.waiters[2].retn = "False"
    /\ waits.offsevents = <<>>
    /\ SeqnIndx = 2

\* ------------------------------------------------ independence of deletions
\* one edit a call: sets and deletions of a property, a universal property,
\* a tag, the property risk of two tags, node data, and a second node
DelEditSet ==
    {NodeAdd(NdefValu(1), NdefType(1)),
     PropSet("p", <<1>>, NoneV, STOR_TYPE_I8), PropDel("p", NoneV, STOR_TYPE_I8),
     PropSet(".created", <<1>>, NoneV, STOR_TYPE_TIME),
     PropDel(".created", NoneV, STOR_TYPE_TIME),
     TagSet("t1", <<1, 2>>, NoneV), TagDel("t1", NoneV),
     TagPropSet("t1", "risk", <<1>>, NoneV, STOR_TYPE_I8),
     TagPropSet("t2", "risk", <<1>>, NoneV, STOR_TYPE_I8),
     TagPropDel("t1", "risk", NoneV, STOR_TYPE_I8),
     NodeDataSet("n", <<1>>, NoneV)}
DelBatches ==
    {Single(1, e) : e \in DelEditSet} \cup {Single(2, PropSet("p", <<1>>, NoneV, STOR_TYPE_I8))}

NextDel ==
    \/ \E ne \in DelBatches : storNodeEdits(1, ne, EmptyMeta)
    \/ CallSteps(1)

SpecDel == Init /\ [][NextDel]_vars

\* the index rows of the bybuid row k, by database
OwnRows(L, k) ==
    LET buid == k[1]
        form == FormOf(buid)
    IN  CASE k[2] = 0 ->
                 [byprop |-> FormRows(L.bybuid[k][1], L.bybuid[k][2], L.bybuid[k][3], buid).byprop,
                  byarray |-> FormRows(L.bybuid[k][1], L.bybuid[k][2], L.bybuid[k][3], buid).byarray,
                  bytag |-> {}, bytagprop |-> {}]
          [] k[2] = 1 ->
                 [byprop |-> {<<a, i, buid>> : a \in WantPropAbrvs(buid, k[3]),
                                  i \in ByPropIndx(MsgpackUnRow(L.bybuid[k]).valu,
                                                   MsgpackUnRow(L.bybuid[k]).stortype)},
                  byarray |-> {<<a, i, buid>> : a \in WantPropAbrvs(buid, k[3]),
                                  i \in ByArrayIndx(MsgpackUnRow(L.bybuid[k]).valu,
                                                    MsgpackUnRow(L.bybuid[k]).stortype)},
                  bytag |-> {}, bytagprop |-> {}]
          [] k[2] = 2 ->
                 [byprop |-> {}, byarray |-> {},
                  bytag |-> {<<<<k[3]>>, <<form, None>>, buid>>}, bytagprop |-> {}]
          [] k[2] = 3 ->
                 [byprop |-> {}, byarray |-> {}, bytag |-> {},
                  bytagprop |-> {<<a, i, buid>> :
                      a \in {<<None, None, k[4]>>, <<None, k[3], k[4]>>, <<form, k[3], k[4]>>},
                      i \in Range(getStorIndx(MsgpackUnRow(L.bybuid[k]).stortype,
                                              MsgpackUnRow(L.bybuid[k]).valu))}]

\* the bybuid row a deletion is about
DelKey(buid, e) ==
    CASE e.kind = EDIT_PROP_DEL -> PropKey(buid, e.name)
      [] e.kind = EDIT_TAG_DEL -> TagKey(buid, e.tag)
      [] e.kind = EDIT_TAGPROP_DEL -> TagPropKey(buid, e.tag, e.name)

IndexDbs == {"byprop", "byarray", "bytag", "bytagprop"}

\* the step from L to M removed the row key and its index rows and nothing
\* else
DelOnly(L, M, key) ==
    /\ M.bybuid = SlabPop(L.bybuid, key)
    /\ M.nodedata = L.nodedata
    /\ M.formcounts = L.formcounts
    /\ \A db \in IndexDbs :
           /\ M[db] \subseteq L[db]
           /\ (L[db] \ M[db]) \subseteq OwnRows(L, key)[db]
           /\ \A k \in DOMAIN L.bybuid \ {key} :
                  (OwnRows(L, k)[db] \cap L[db]) \subseteq M[db]
           /\ \A r \in OwnRows(L, key)[db] \cap M[db] :
                  \E k \in DOMAIN L.bybuid \ {key} : r \in OwnRows(L, k)[db]

\* C30: an applied PROP_DEL, TAG_DEL or TAGPROP_DEL removes its own bybuid
\* row and that row's index rows and leaves the form row, the other
\* properties, tags and tag properties with their index rows, the node data,
\* the form counts and the rows of other buids as they were; when the row is
\* absent no row changes and no edit is applied
C30_DelIndependent ==
    [][(calls[1].pc = "edits" /\ calls'[1].idx = calls[1].idx + 1
        /\ calls[1].nodeedits[calls[1].idx + 1].edits[1].kind
               \in {EDIT_PROP_DEL, EDIT_TAG_DEL, EDIT_TAGPROP_DEL}) =>
          LET ne == calls[1].nodeedits[calls[1].idx + 1]
              key == DelKey(ne.buid, ne.edits[1])
              applied == calls'[1].changes[calls'[1].idx].edits
          IN  IF key \in DOMAIN layr.bybuid
              THEN /\ DelOnly(layr, layr', key)
                   /\ Len(applied) = 1
                   /\ applied[1].kind = ne.edits[1].kind
              ELSE /\ layr' = layr
                   /\ applied = <<>>]_vars

\* ------------------------------------------------ NODE_DEL postcondition
\* a node with a scalar form value, a node with an array form value, a
\* property and node data of both, and their deletion; one edit a call
NodeEditSet ==
    {Single(1, NodeAdd(NdefValu(1), NdefType(1))),
     Single(2, NodeAdd(<<1, 2>>, ArrayI8)),
     Single(1, NodeDel(NdefValu(1), NdefType(1))),
     Single(2, NodeDel(<<1, 2>>, ArrayI8)),
     Single(1, PropSet("p", <<1>>, NoneV, STOR_TYPE_I8)),
     Single(1, NodeDataSet("n", <<1>>, NoneV)),
     Single(2, NodeDataSet("n", <<1>>, NoneV)),
     Single(2, NodeDataSet("p", <<2>>, NoneV))}

NextNode ==
    \/ \E ne \in NodeEditSet : storNodeEdits(1, ne, EmptyMeta)
    \/ CallSteps(1)

SpecNode == Init /\ [][NextNode]_vars

\* Layer.getNodeData
getNodeData(L, buid, name) ==
    LET byts == SlabGet(L.nodedata, DataKey(buid, name))
    IN  IF byts = NoByts THEN None ELSE MsgpackUn(byts)

\* the step applies a node-edit whose one edit is a NODE_DEL
NodeDelStep ==
    /\ calls[1].pc = "edits"
    /\ calls'[1].idx = calls[1].idx + 1
    /\ calls[1].nodeedits[calls[1].idx + 1].edits[1].kind = EDIT_NODE_DEL

\* C31: after an applied NODE_DEL of a buid its form row is gone, no byprop
\* or byarray row under A(form, None) refers to the buid, getNodeData is
\* None for every name and iterNodeData yields nothing; a NODE_DEL of a
\* buid without form row changes nothing and applies no edit
C31_NodeDel ==
    [][NodeDelStep =>
          LET buid == calls[1].nodeedits[calls[1].idx + 1].buid
              byts == SlabGet(layr.bybuid, FormKey(buid))
              applied == calls'[1].changes[calls'[1].idx].edits
          IN  IF byts = NoByts
              THEN /\ layr' = layr
                   /\ applied = <<>>
              ELSE /\ FormKey(buid) \notin DOMAIN layr'.bybuid
                   /\ \A r \in layr'.byprop \cup layr'.byarray :
                          ~(r[1] = getPropAbrv(byts[1], None) /\ r[3] = buid)
                   /\ \A name \in Range(NameOrder) : getNodeData(layr', buid, name) = None
                   /\ IterNodeData(layr', buid) = <<>>
                   /\ layr'.formcounts[byts[1]] = layr.formcounts[byts[1]] - 1
                   /\ applied = <<NodeDel(byts[2], byts[3])>>]_vars

\* a node with node data and index rows was deleted: the log holds the
\* NODEDATA_SET and then the NODE_DEL of the array node
C31_Witness ==
    /\ Len(nodeeditlog) = 3
    /\ nodeeditlog[2].changes[1].edits = <<NodeDataSet("n", <<1>>, NoneV)>>
    /\ nodeeditlog[2].changes[1].buid = 2
    /\ nodeeditlog[3].changes[1].edits = <<NodeDel(<<1, 2>>, ArrayI8)>>
    /\ nodeeditlog[3].changes[1].buid = 2

\* ------------------------------------------- the upstream task's failures
\* failures of one behaviour
MaxFails == 2

\* what stays when the upstream task's turn touches only the follower
FollFrame ==
    UNCHANGED <<layr, nodeeditlog, offsets, calls, nexslock, clock, up, hist, ncalls,
                nedits, abrv, waits, lift, slabseqn>>

\* the peer's generator ends with the link or the stream: its window goes
DropUpWindow == windows' = [x \in DOMAIN windows \ {UpWindow} |-> windows[x]]

\* s_telepath.openurl(url) or proxy.getIden() raises: except Exception logs,
\* and the task goes on to waitfini(1)
ConnFail ==
    /\ foll.up /\ foll.pc = "idle" /\ ~foll.isfini
    /\ foll.fails < MaxFails
    /\ foll' = [foll EXCEPT !.pc = "sleep", !.fails = @ + 1]
    /\ UNCHANGED windows
    /\ FollFrame

\* proxy.iterLayerNodeEdits() or storNodeEditsNoLift([item], {}) raises in
\* the bootstrap: the proxy is closed and the handler reached;
\* offsets[iden] was not set
BootFail ==
    /\ foll.up /\ foll.pc = "boot"
    /\ foll.fails < MaxFails
    /\ foll' = [foll EXCEPT !.pc = "sleep", !.fails = @ + 1, !.gen = GenInit]
    /\ UNCHANGED windows
    /\ FollFrame

\* storNodeEditsNoLift(item, {}) raises in the follow loop: nothing of the
\* item is stored, offsets[iden] stays, the proxy is closed and the handler
\* reached
ApplyFail ==
    /\ foll.up /\ foll.pc = "follow"
    /\ foll.q # <<>> /\ Head(foll.q) # QNone
    /\ foll.fails < MaxFails
    /\ foll' = [foll EXCEPT !.pc = "sleep", !.fails = @ + 1, !.q = <<>>, !.sync = "none"]
    /\ DropUpWindow
    /\ FollFrame

\* proxy.syncNodeEdits(x) ends or raises inside consume: its finally puts
\* None on the queue; dead says whether the proxy is fini with it (the link
\* is lost) or still open (the peer's window was finalized)
StreamEnd(dead) ==
    /\ foll.up /\ foll.pc = "follow"
    /\ foll.sync \in {"log", "wind"}
    /\ foll.fails < MaxFails
    /\ foll' = [foll EXCEPT !.q = Append(@, QNone), !.fails = @ + 1,
                            !.sync = IF dead THEN "lost" ELSE "ended"]
    /\ DropUpWindow
    /\ FollFrame

\* item = await q.get() is None (break), or nexi is None (done = True):
\* control is back at "while not proxy.isfini", which goes round again with
\* an open proxy and leaves the "async with" with a proxy that is fini
FollowEnd ==
    /\ foll.up /\ foll.pc = "follow"
    /\ foll.q # <<>> /\ Head(foll.q) = QNone
    /\ foll' = [foll EXCEPT !.pc = IF foll.sync = "lost" THEN "sleep" ELSE "loop",
                            !.q = <<>>, !.sync = "none"]
    /\ UNCHANGED windows
    /\ FollFrame

\* await self.waitfini(1) returns, and "while not self.isfini" is tested
SleepEnd ==
    /\ foll.up /\ foll.pc = "sleep"
    /\ foll' = [foll EXCEPT !.pc = IF foll.isfini THEN "done" ELSE "idle"]
    /\ UNCHANGED windows
    /\ FollFrame

\* "while not self.isfini" fails before a connection is tried
LoopExit ==
    /\ foll.up /\ foll.pc = "idle" /\ foll.isfini
    /\ foll' = [foll EXCEPT !.pc = "done"]
    /\ UNCHANGED windows
    /\ FollFrame

\* the task is cancelled where it waits: except asyncio.CancelledError: return
TaskCancel ==
    /\ foll.up /\ foll.pc \notin {"done", "cancelled"}
    /\ foll' = [foll EXCEPT !.pc = "cancelled", !.q = <<>>, !.sync = "none"]
    /\ DropUpWindow
    /\ FollFrame

\* the follower layer is finalized
LayerFini ==
    /\ foll.up /\ ~foll.isfini
    /\ foll' = [foll EXCEPT !.isfini = TRUE]
    /\ UNCHANGED windows
    /\ FollFrame

RetryBatches ==
    {Single(1, NodeAdd(NdefValu(1), NdefType(1))),
     Single(1, PropSet("p", <<1>>, NoneV, STOR_TYPE_I8))}

NextRetry ==
    \/ \E ne \in RetryBatches : storNodeEdits(1, ne, EmptyMeta)
    \/ CallSteps(1)
    \/ UpConnect
    \/ BootStep
    \/ FollowStart
    \/ SyncLog
    \/ SyncWind
    \/ FollowApply
    \/ ConnFail
    \/ BootFail
    \/ ApplyFail
    \/ \E dead \in BOOLEAN : StreamEnd(dead)
    \/ FollowEnd
    \/ SleepEnd
    \/ LoopExit
    \/ TaskCancel
    \/ LayerFini

SpecRetry == Init /\ [][NextRetry]_vars

\* C32: a failure in the upstream task (connect, bootstrap, peer stream
\* ending or failing, applying an item) leaves the follower layer as it was
\* and sends the task to the retry delay, from which it connects again
\* while the layer is not finalized and ends when it is; a cancelled task
\* stays ended.
C32_Resilience ==
    [][/\ foll'.fails > foll.fails =>
              /\ foll'.layr = foll.layr /\ foll'.offsets = foll.offsets
              /\ foll'.isfini = foll.isfini /\ foll'.up = foll.up
       /\ (foll'.fails > foll.fails /\ foll'.pc # foll.pc) => foll'.pc = "sleep"
       /\ (foll.pc = "follow" /\ foll.sync \in {"ended", "lost"} /\ foll'.pc # "follow")
              => foll'.pc \in {"sleep", "cancelled"}
       /\ (foll.pc = "sleep" /\ foll'.pc # "sleep")
              => foll'.pc \in {IF foll.isfini THEN "done" ELSE "idle", "cancelled"}
       /\ foll.pc \in {"done", "cancelled"} => foll'.pc = foll.pc]_vars

\* ------------------------------------------------------------ splice ndef
\* the positions (O, i, j), counted from 0, of the applied edits of kind
\* kind on buid that the log holds before position pos
LoggedBefore(buid, kind, pos) ==
    {p \in UNION {UNION {{<<n - 1, i - 1, j - 1>> :
                              j \in DOMAIN nodeeditlog[n].changes[i].edits} :
                         i \in DOMAIN nodeeditlog[n].changes} :
                  n \in DOMAIN nodeeditlog} :
        /\ OffsLess(p, pos)
        /\ nodeeditlog[p[1] + 1].changes[p[2] + 1].buid = buid
        /\ nodeeditlog[p[1] + 1].changes[p[2] + 1].edits[p[3] + 1].kind = kind}

\* the node had its form row when the edit at pos was applied: more
\* NODE_ADD than NODE_DEL of it were applied before
NodeAt(buid, pos) ==
    Cardinality(LoggedBefore(buid, EDIT_NODE_ADD, pos))
        > Cardinality(LoggedBefore(buid, EDIT_NODE_DEL, pos))

\* C33: every splice of an edit of a node carries ndef = (form, the form
\* value the node had when the edit was applied): the value of the NODE_ADD
\* or NODE_DEL itself, and for the other edits of a node that had its form
\* row then the value of that row, whatever has become of the node since
C33_SpliceNdef ==
    \A O \in 0 .. Len(nodeeditlog) - 1 :
        \A k \in DOMAIN SplicesOf(O) :
            LET pos == SplicesOf(O)[k][1]
                ne == nodeeditlog[O + 1].changes[pos[2] + 1]
                e == ne.edits[pos[3] + 1]
            IN  (e.kind \in {EDIT_NODE_ADD, EDIT_NODE_DEL} \/ NodeAt(ne.buid, pos)) =>
                    SplicesOf(O)[k][2][2].ndef =
                        <<ne.form,
                          IF e.kind \in {EDIT_NODE_ADD, EDIT_NODE_DEL} THEN e.valu
                          ELSE NdefValu(ne.buid)>>

\* ----------------------------------------------------------- UTF-8 prefix
STOR_TYPE_UTF8 == 1

\* c repeated n times
Rep(c, n) == [i \in 1 .. n |-> c]

\* valu.encode('utf8', 'surrogatepass') of a string of code points below
\* U+0800: one byte below U+0080, two bytes from there; the string is
\* encoded half by half
RECURSIVE Utf8En(_)
Utf8En(valu) ==
    IF valu = <<>> THEN <<>>
    ELSE IF Len(valu) = 1
    THEN (IF valu[1] < 128 THEN <<valu[1]>>
          ELSE <<192 + (valu[1] \div 64), 128 + (valu[1] % 64)>>)
    ELSE Utf8En(SubSeq(valu, 1, Len(valu) \div 2))
         \o Utf8En(SubSeq(valu, (Len(valu) \div 2) + 1, Len(valu)))

\* the stored values and the prefixes asked for, as code points: around the
\* lengths 248 and 256 of the encoding, with 'a', 'b' and the two-byte U+00E9
Utf8Stored ==
    {<<97>>,
     <<97, 98>>,
     Rep(97, 248),
     Rep(97, 256),
     Rep(97, 257),
     Rep(97, 255) \o <<98>>,
     Rep(97, 256) \o <<98>>,
     Rep(97, 248) \o <<98>> \o Rep(97, 8),
     Rep(233, 128),
     Rep(233, 129),
     Rep(97, 247) \o <<233>> \o Rep(97, 8)}

Utf8Prefixes ==
    {<<>>,
     <<97>>,
     <<98>>,
     Rep(97, 247),
     Rep(97, 248),
     Rep(97, 249),
     Rep(97, 256),
     Rep(97, 257),
     Rep(97, 258),
     Rep(97, 248) \o <<98>>,
     Rep(233, 124),
     Rep(233, 125),
     Rep(97, 247) \o <<233>>}

\* xxhash.xxh64(indx).digest(): the 8 bytes of the digest, seed 0, big-endian,
\* of the encodings longer than 256 bytes among the values above
xxh64(indx) ==
    CASE indx = Utf8En(Rep(97, 257)) ->
             <<71, 96, 100, 215, 213, 222, 192, 43>>
      [] indx = Utf8En(Rep(97, 256) \o <<98>>) ->
             <<163, 153, 189, 99, 123, 105, 189, 207>>
      [] indx = Utf8En(Rep(97, 248) \o <<98>> \o Rep(97, 8)) ->
             <<73, 120, 197, 69, 242, 214, 123, 48>>
      [] indx = Utf8En(Rep(233, 129)) ->
             <<134, 236, 157, 1, 170, 86, 160, 102>>
      [] indx = Utf8En(Rep(97, 247) \o <<233>> \o Rep(97, 8)) ->
             <<99, 29, 130, 191, 4, 8, 175, 31>>
      [] indx = Utf8En(Rep(97, 258)) ->
             <<249, 33, 200, 93, 42, 15, 16, 169>>

\* StorTypeUtf8._getIndxByts
_getIndxByts(valu) ==
    LET indx == Utf8En(valu)
    IN  IF Len(indx) <= 256 THEN indx
        ELSE SubSeq(indx, 1, 248) \o xxh64(indx)

\* byts starts with pref
StartsWith(byts, pref) ==
    Len(pref) <= Len(byts) /\ SubSeq(byts, 1, Len(pref)) = pref

\* IndxBy.buidsByPref(indx): the rows whose key starts with abrv + indx
buidsByPref(db, abrvkey, indx) ==
    RowBuids(SelectSeq(ScanRows(db, abrvkey), LAMBDA r : StartsWith(r[2], indx)))

\* StorTypeUtf8._liftUtf8Prefix
_liftUtf8Prefix(db, abrvkey, valu) == buidsByPref(db, abrvkey, _getIndxByts(valu))

\* the byprop rows of node 1 of form X with the property s = valu of type
\* STOR_TYPE_UTF8: one row, under abrv + StorTypeUtf8.indx(valu)[0]
Utf8Rows(valu) == IndxRows({getPropAbrv("X", "s")}, <<_getIndxByts(valu)>>, 1)

\* a request: the '^=' lift of X:s with prefix p over a layer that stores s
Utf8Asks == [fn : {"ask"}, s : Utf8Stored, p : Utf8Prefixes]

InitUtf8 ==
    /\ layr = EmptyLayer
    /\ nodeeditlog = <<>>
    /\ offsets = [k \in {} |-> 0]
    /\ windows = [w \in {} |-> <<>>]
    /\ calls = [c \in Calls |-> IdleCall]
    /\ nexslock = 0
    /\ clock = 1
    /\ up = TRUE
    /\ hist = <<>>
    /\ ncalls = 0
    /\ nedits = 0
    /\ foll = EmptyFoll
    /\ abrv = EmptyAbrv
    /\ waits = NoWaits
    /\ lift \in Utf8Asks
    /\ slabseqn = NewSeqn

\* the lift runs and its buids are recorded
Utf8Call ==
    /\ lift.fn = "ask"
    /\ lift' = [fn |-> "_liftUtf8Prefix", s |-> lift.s, p |-> lift.p,
                gave |-> _liftUtf8Prefix(Utf8Rows(lift.s), getPropAbrv("X", "s"), lift.p)]
    /\ UNCHANGED <<layr, nodeeditlog, offsets, windows, calls, nexslock, clock, up,
                   hist, ncalls, nedits, foll, abrv, waits, slabseqn>>

NextUtf8 == Utf8Call

SpecUtf8 == InitUtf8 /\ [][NextUtf8]_vars

\* C34: the '^=' lift with prefix p yields the buid of the node that stores
\* s exactly when the UTF-8 encoding of s starts with the encoding of p,
\* for values and prefixes of every length
C34_Utf8Prefix ==
    lift.fn = "_liftUtf8Prefix" =>
        (1 \in Range(lift.gave) <=> StartsWith(Utf8En(lift.s), Utf8En(lift.p)))

\* ---------------------------------------------------------- splice paging
\* the largest size asked of splices(offs, size)
MaxSize == 2

\* SlabSeqn.slice(offs, size): the items of iter(offs), as (offs, item),
\* until the one at position size - 1 has been yielded
slice(log, offs, size) ==
    [i \in 1 .. (IF size >= 1 /\ size < Len(log) - offs THEN size
                 ELSE IF offs < Len(log) THEN Len(log) - offs ELSE 0) |->
        <<offs + i - 1, log[offs + i]>>]

\* the loop of Layer.splices over the sliced items
RECURSIVE SplicesOver(_, _, _)
SplicesOver(L, items, out) ==
    IF items = <<>> THEN out
    ELSE SplicesOver(L, Tail(items), out \o makeSplices(L, Head(items)[1], Head(items)[2]))

\* Layer.splices(offs, size)
splicesPage(L, log, offs, size) == SplicesOver(L, slice(log, offs, size), <<>>)

\* C35: splices(offs, size) yields at most size splices, and they are the
\* first splices at or after offs, in order, for every offs of the log and
\* every size
C35_SplicePaging ==
    \A offs \in 0 .. Len(nodeeditlog) : \A size \in 1 .. MaxSize :
        LET page == splicesPage(layr, nodeeditlog, offs, size)
            rest == splices(layr, nodeeditlog, offs, <<>>)
        IN  /\ Len(page) <= size
            /\ Len(page) <= Len(rest)
            /\ page = SubSeq(rest, 1, Len(page))

\* --------------------------------------------------- the follower never skips
\* the upstream's bybuid after its first m log entries
PeerAt(m) == ReplayInto(EmptyLayer, SubSeq(nodeeditlog, 1, m), 1).bybuid

\* row k of the follower is row k of the upstream as it is now or as it was
\* after m log entries, for some m >= n
RowReflects(k, n) ==
    LET row(db) == IF k \in DOMAIN db THEN db[k] ELSE NoByts
    IN  \/ row(foll.layr.bybuid) = row(layr.bybuid)
        \/ \E m \in n .. Len(nodeeditlog) : row(foll.layr.bybuid) = row(PeerAt(m))

\* every row reflects the log entries below n
Reflects(n) ==
    \A k \in DOMAIN foll.layr.bybuid \cup DOMAIN layr.bybuid \cup DOMAIN PeerAt(n) :
        RowReflects(k, n)

\* C36: with offsets[peer_iden] = n > 0 the follower's rows reflect every
\* peer log entry below n; a step of the follow loop that raises the offset
\* applies the entry at exactly the old offset and raises it by one; and
\* offsets[peer_iden] never decreases
C36_NeverSkips ==
    /\ [](UpOffs(foll.offsets) > 0 => Reflects(UpOffs(foll.offsets)))
    /\ [][UpOffs(foll'.offsets) >= UpOffs(foll.offsets)]_vars
    /\ [][(foll.pc = "follow" /\ UpOffs(foll'.offsets) # UpOffs(foll.offsets)) =>
              /\ UpOffs(foll'.offsets) = UpOffs(foll.offsets) + 1
              /\ foll.q # <<>>
              /\ Head(foll.q) = <<UpOffs(foll.offsets),
                                  nodeeditlog[UpOffs(foll.offsets) + 1].changes>>]_vars

\* ------------------------------------------------------ recorded old value
\* sets of a property, a tag, a tag property and node data, each with two
\* values, with no oldv and with an oldv the caller made up; one edit a call
OldvEditSet ==
    {PropSet("p", <<v>>, o, STOR_TYPE_I8) : v \in {1, 2}, o \in {NoneV, <<9>>}} \cup
    {TagSet("t1", <<v, 3>>, o) : v \in {1, 2}, o \in {NoneV, <<9, 9>>}} \cup
    {TagPropSet("t1", "risk", <<v>>, o, STOR_TYPE_I8) : v \in {1, 2}, o \in {NoneV, <<9>>}} \cup
    {NodeDataSet("n", <<v>>, o) : v \in {1, 2}, o \in {NoneV, <<9>>}}

OldvBatches == {Single(1, e) : e \in OldvEditSet}

NextOldv ==
    \/ \E ne \in OldvBatches : storNodeEdits(1, ne, EmptyMeta)
    \/ CallSteps(1)

SpecOldv == Init /\ [][NextOldv]_vars

\* the value layer L stores under the name the set edit e of buid writes,
\* None when it stores none
StoredValu(L, buid, e) ==
    CASE e.kind = EDIT_PROP_SET ->
             IF HasRow(L, PropKey(buid, e.name))
             THEN MsgpackUnRow(L.bybuid[PropKey(buid, e.name)]).valu ELSE NoneV
      [] e.kind = EDIT_TAG_SET ->
             IF HasRow(L, TagKey(buid, e.tag))
             THEN MsgpackUn(L.bybuid[TagKey(buid, e.tag)]) ELSE NoneV
      [] e.kind = EDIT_TAGPROP_SET ->
             IF HasRow(L, TagPropKey(buid, e.tag, e.name))
             THEN MsgpackUnRow(L.bybuid[TagPropKey(buid, e.tag, e.name)]).valu ELSE NoneV
      [] e.kind = EDIT_NODEDATA_SET ->
             IF DataKey(buid, e.name) \in DOMAIN L.nodedata
             THEN MsgpackUn(L.nodedata[DataKey(buid, e.name)]) ELSE NoneV

\* C37: the oldv of every applied PROP_SET, TAG_SET, TAGPROP_SET and
\* NODEDATA_SET is the value that was stored under the name immediately
\* before the edit, None when none was stored, whatever oldv the request
\* carried
C37_RecordedOldv ==
    [][(calls[1].pc = "edits" /\ calls'[1].idx = calls[1].idx + 1) =>
          LET ne == calls[1].nodeedits[calls[1].idx + 1]
              applied == calls'[1].changes[calls'[1].idx].edits
          IN  \A i \in DOMAIN applied :
                  applied[i].oldv = StoredValu(layr, ne.buid, applied[i])]_vars

\* ------------------------------------------------- startup replay and the log
\* C38: the replay of the log tail in Layer.__anit__ adds, removes and
\* alters no node-edit log entry: the log after the restart is the log the
\* stopped process left
C38_ReplayKeepsLog ==
    [][(~up /\ up') => nodeeditlog' = nodeeditlog]_vars

\* ------------------------------------------------------- the layer's teardown
\* windows of one behaviour
MaxWinds == 3

\* self.windows as a list: the registered windows in the order of their
\* registration, which is the order of their numbers here
RECURSIVE WindList(_)
WindList(ws) ==
    IF ws = {} THEN <<>>
    ELSE LET w == CHOOSE x \in ws : \A y \in ws : x <= y
         IN  <<w>> \o WindList(ws \ {w})

\* await wind.fini(): the window's fini handler, self.windows.remove(wind)
WindRemove(list, wind) == SelectSeq(list, LAMBDA x : x # wind)

\* Layer._onLayrFini: [(await wind.fini()) for wind in self.windows]; the
\* loop takes the element at position i of the list as it is then, and each
\* fini takes its window off the list
RECURSIVE _onLayrFini(_, _)
_onLayrFini(list, i) ==
    IF i >= Len(list) THEN list
    ELSE _onLayrFini(WindRemove(list, list[i + 1]), i + 1)

\* the layer is finalized: its fini handlers run, and the windows that are
\* still on self.windows stay as they are, with their consumers waiting
OnLayrFini ==
    /\ up
    /\ \A c \in Calls : calls[c].pc = "idle"
    /\ up' = FALSE
    /\ windows' = [w \in Range(_onLayrFini(WindList(DOMAIN windows), 0)) |-> windows[w]]
    /\ UNCHANGED <<layr, nodeeditlog, offsets, calls, nexslock, clock, hist,
                   ncalls, nedits, foll, abrv, waits, lift, slabseqn>>

TeardownBatches == {Single(1, NodeAdd(NdefValu(1), NdefType(1)))}

NextTeardown ==
    \/ \E ne \in TeardownBatches : storNodeEdits(1, ne, EmptyMeta)
    \/ CallSteps(1)
    \/ \E w \in 1 .. MaxWinds : getNodeEditWindow(w)
    \/ \E w \in 1 .. MaxWinds : WindowGet(w)
    \/ \E w \in 1 .. MaxWinds : WindowFini(w)
    \/ OnLayrFini

SpecTeardown == Init /\ [][NextTeardown]_vars

\* C39: when the layer is finalized with windows registered, every one of
\* them is finalized and no window stays registered
C39_TeardownWindows ==
    [][(up /\ ~up') => DOMAIN windows' = {}]_vars


\* --------------------------------------------------- sequence-log offsets
MaxItems == 4

\* the items put into the sequence, and the tuples of them save is given
SeqnItems == {<<1>>, <<2, 3>>}
SaveLists == {<<>>} \cup {<<a>> : a \in SeqnItems} \cup (SeqnItems \X SeqnItems)

GapFrame ==
    UNCHANGED <<layr, nodeeditlog, offsets, windows, calls, nexslock, clock, up, hist,
                ncalls, nedits, foll, abrv, waits, lift>>

\* a caller adds one item
SeqnAdd(item) ==
    /\ index(slabseqn) + 1 <= MaxItems
    /\ slabseqn' = add(slabseqn, item)
    /\ GapFrame

\* a caller saves a tuple of items
SeqnSaveItems(items) ==
    /\ index(slabseqn) + Len(items) <= MaxItems
    /\ slabseqn' = save(slabseqn, items, clock)
    /\ GapFrame

\* the slab is closed and a new SlabSeqn is made on the same database
SeqnReopen ==
    /\ slabseqn' = SlabSeqnInit(slabseqn.rows)
    /\ GapFrame

NextGap ==
    \/ \E item \in SeqnItems : SeqnAdd(item)
    \/ \E items \in SaveLists : SeqnSaveItems(items)
    \/ SeqnReopen

SpecGap == Init /\ [][NextGap]_vars

\* the keys of the offsets lo .. hi - 1
OffsKeys(lo, hi) == {Int64En(n) : n \in lo .. hi - 1}

\* the keys are exactly those of 0 .. index() - 1
KeysGapFree == DOMAIN slabseqn.rows = OffsKeys(0, index(slabseqn))

\* iter(offs) yields the stored entries of offset >= offs, each once, in
\* increasing order of offset
IterFrom(offs) ==
    LET r == iter(slabseqn, offs)
    IN  /\ {r[i][1] : i \in DOMAIN r} = {n \in 0 .. index(slabseqn) - 1 : n >= offs}
        /\ \A i \in DOMAIN r : r[i][2] = MsgpackUn(slabseqn.rows[Int64En(r[i][1])])
        /\ \A i, j \in DOMAIN r : i < j => r[i][1] < r[j][1]

\* add returns the old index() and advances it by one, the item is stored at
\* the offset returned
AddStep ==
    slabseqn'.call.op = "add" /\ slabseqn' # slabseqn =>
        /\ slabseqn'.call.retn = index(slabseqn)
        /\ index(slabseqn') = index(slabseqn) + 1
        /\ iter(slabseqn', index(slabseqn)) = <<<<index(slabseqn), slabseqn'.call.args>>>>

\* save of k items advances index() by k and the items get the offsets from
\* the old index() on, in their order
SaveStep ==
    slabseqn'.call.op = "save" /\ slabseqn' # slabseqn =>
        LET items == slabseqn'.call.args
        IN  /\ index(slabseqn') = index(slabseqn) + Len(items)
            /\ slabseqn'.call.retn.orig = index(slabseqn)
            /\ slabseqn'.call.retn.indx = index(slabseqn')
            /\ iter(slabseqn', index(slabseqn))
                 = [i \in 1 .. Len(items) |-> <<index(slabseqn) + i - 1, items[i]>>]

\* no step assigns an offset that was assigned before: the rows there are
\* stay as they are, and a reopen changes neither the rows nor index()
AssignedOnce ==
    /\ \A k \in DOMAIN slabseqn.rows :
          k \in DOMAIN slabseqn'.rows /\ slabseqn'.rows[k] = slabseqn.rows[k]
    /\ DOMAIN slabseqn'.rows \ DOMAIN slabseqn.rows
          = OffsKeys(index(slabseqn), index(slabseqn'))
    /\ slabseqn'.call.op = "none" =>
          index(slabseqn') = index(slabseqn) /\ slabseqn'.rows = slabseqn.rows

\* C40: after any sequence of SlabSeqn.add and save calls, with the log closed
\* and reopened at any point, the stored keys are exactly 0 .. index() - 1;
\* add returns the value index() had before the call and advances it by one,
\* save of k items advances it by k and gives the items consecutive offsets in
\* order, no offset is assigned twice, and iter(offs) yields the entries of
\* offset >= offs in increasing order
C40_GapFree ==
    /\ [](KeysGapFree /\ \A offs \in 0 .. MaxItems + 1 : IterFrom(offs))
    /\ [][AddStep /\ SaveStep /\ AssignedOnce]_vars

\* two items were saved and one added, the log was reopened and index() is 3
C40_Witness ==
    /\ slabseqn.call = NoCall
    /\ index(slabseqn) = 3
    /\ iter(slabseqn, 1) = <<<<1, <<2, 3>>>>, <<2, <<1>>>>>>

====
